---- MODULE Spec2Model ----
(***************************************************************************)
(* $TREATZ backend: the round and bet settlement engine of main.py, with   *)
(* the ledger helpers of db.py and the one-shot initializer of init_db.py. *)
(*                                                                         *)
(* The ledger is one SQLite connection shared by every coroutine           *)
(* (app.state.db).  `db` is what the connection sees (committed rows plus  *)
(* the pending writes of the open transaction, visible to every coroutine  *)
(* because they share the connection), `disk` is what has been committed,  *)
(* and `inTx` says whether the connection has a transaction open.          *)
(* Every `await` of the source is a point where another coroutine may run, *)
(* so every awaited call is one step of the coroutine that makes it.       *)
(***************************************************************************)
EXTENDS Integers, Sequences, FiniteSets, TLC

VARIABLES
    db,        \* the ledger as the shared connection sees it
    disk,      \* the ledger as committed
    inTx,      \* the connection has an open transaction
    now,       \* wall clock, in minutes
    boot,      \* on_startup / init_db progress
    sched,     \* the round_scheduler task
    closer,    \* admin_close_round invocations, by caller
    wh,        \* helius_webhook invocations
    adm,       \* admin_seed_rounds invocation
    env,       \* collaborators: injected faults, events delivered, restarts
    log        \* history: ids the allocator returned, payout calls made

vars == <<db, disk, inTx, now, boot, sched, closer, wh, adm, env, log>>

----------------------------------------------------------------------------
(* Bounds of the model *)

\* largest round number the allocator hands out
MaxId == 2
\* minute-by-minute ticks of the clock
MaxTime == 2
\* confirmation events the event source delivers (redeliveries included)
MaxEvents == 2
\* faults the collaborators (chain reader, payout executor, ledger) raise
MaxFail == 1
\* process restarts
MaxRestart == 1
\* calls of the counter-reset endpoint
MaxReset == 1
\* requests to the admin endpoints close and seed
MaxCalls == 2
\* deposits delivered where credit is accumulated
MaxDeposits == 3
\* server secrets secrets.token_hex can return: 1..NSeeds
NSeeds == 2

(* Program constants *)

ROUND_MIN == 2
INIT_ROUND_MIN == 30            \* init_db.py: closes = opens + 30 minutes
ROUND_BREAK == 2
TICKET_PRICE == 1000000
WIN_AMOUNT == 2
SPLT_WIN == 80
SPLT_DEV == 10
SPLT_BURN == 10
SLOTS_PER_MIN == 150
SEARCH_BACK == 2048
SEARCH_FORWARD == 128

----------------------------------------------------------------------------
(* Values *)

NoId == 0                       \* kv_get returned None / no row
RoundIds == 1 .. MaxId
NoSeed == 0
NoSlot == 0                     \* finalize_slot NULL or 0; effective_slot None
Seeds == 1 .. NSeeds
\* wallets, in the order the kv table lists their credit rows
WalletSeq == <<"AAAAAA1", "AAAAAA2", "BBBBBB1">>
Wallets == {WalletSeq[i] : i \in 1 .. Len(WalletSeq)}
BetIds == {"b1"}
PaySigs == {"tx1", "tx2"}       \* payment references of confirmation events
Sides == {"TRICK", "TREAT"}
Closers == {"sched", "admin"}
Handlers == {"h1", "h2"}

\* _hash: sha256 hex digest; modelled as an injective map out of the seed space
_hash(s) == 100 + s

\* _hash("seed:" + rid): the digest init_db and admin_seed_rounds store
SeedTagHash(rid) == _hash(50 + rid)

\* block identifiers the chain reader returns, and secrets.token_hex(16)
BlockHashes == {"bh1", "bh2"}
RandomToken == "rnd"

\* _rpc_get_slot(): the position of the chain when the clock reads t minutes
SlotAt(t) == (t + 12) * SLOTS_PER_MIN

\* finalize_slot = curr_slot + (ROUND_MIN * SLOTS_PER_MIN)
FinalizeSlot(t) == SlotAt(t) + ROUND_MIN * SLOTS_PER_MIN

\* the bytes of a string read as a number, for the keyed hash
StrCode(s) ==
    CASE s = "tx1" -> 3
      [] s = "tx2" -> 8
      [] s = "tx3" -> 13
      [] s = "bh1" -> 4
      [] s = "bh2" -> 9
      [] s = "rnd" -> 6
      [] s = "c1"  -> 1
      [] OTHER     -> Len(s)

\* int.from_bytes(_hmac(secret, msg), "big"): a keyed mixing of the message
_hmac(secret, msg) ==
    ((secret * 2654435 + msg * 40503 + secret * msg * 97 + 12345) \div 7) % 65536

\* f"R{n:04d}"
RoundName(n) ==
    LET d == ToString(n)
    IN  "R" \o (CASE Len(d) = 1 -> "000" [] Len(d) = 2 -> "00"
                  [] Len(d) = 3 -> "0" [] OTHER -> "") \o d

RECURSIVE SumTickets(_)
SumTickets(es) ==
    IF es = <<>> THEN 0 ELSE Head(es).tickets + SumTickets(Tail(es))

----------------------------------------------------------------------------
(* The ledger: SCHEMA of db.py *)

NoRound == [status |-> "NONE", pot |-> 0, closes |-> 0, hash |-> 0, reveal |-> NoSeed,
            fslot |-> NoSlot]

NoBet == [status |-> "NONE", wager |-> 0, side |-> "", cseed |-> "", hash |-> 0,
          reveal |-> NoSeed, result |-> "", win |-> -1, tx |-> "", user |-> "",
          settled |-> -1]

EmptyDb ==
    [ rounds  |-> [r \in RoundIds |-> NoRound],
      entries |-> <<>>,                          \* rows of entries, in id order
      cur     |-> NoId,                          \* kv current_round_id
      nextId  |-> 0,                             \* kv round:next_id (absent reads as 0)
      rseed   |-> [r \in RoundIds |-> NoSeed],   \* kv round:<rid>:server_seed
      rwinner |-> [r \in RoundIds |-> ""],       \* kv round:<rid>:winner
      rpaysig |-> [r \in RoundIds |-> ""],       \* kv round:<rid>:payout_sig
      rpayerr |-> [r \in RoundIds |-> ""],       \* kv round:<rid>:payout_error
      rentropy |-> [r \in RoundIds |-> ""],      \* kv round:<rid>:entropy
      rslot   |-> [r \in RoundIds |-> NoSlot],   \* kv round:<rid>:entropy_slot
      credit  |-> [w \in Wallets |-> 0],         \* kv raffle_credit:<wallet>
      bets    |-> [b \in BetIds |-> NoBet],
      bseed   |-> [b \in BetIds |-> NoSeed],     \* kv bet:<id>:server_seed
      bpaysig |-> [b \in BetIds |-> ""],         \* kv bet:<id>:payout_sig
      bpayerr |-> [b \in BetIds |-> ""],         \* kv bet:<id>:payout_error
      bshort  |-> [b \in BetIds |-> -1] ]        \* kv bet:<id>:short_deposit

\* conn.execute of an INSERT/UPDATE: sqlite3 opens a transaction before the
\* first data-modifying statement; the write is pending until a commit
Write(d) == /\ db' = d
            /\ inTx' = TRUE
            /\ UNCHANGED disk

\* conn.execute of a write followed by conn.commit(): kv_set's two statements
WriteCommit(d) == /\ db' = d
                  /\ disk' = d
                  /\ inTx' = FALSE

\* conn.commit(): everything pending on the connection becomes durable,
\* whichever coroutine wrote it
Commit == /\ disk' = db
          /\ inTx' = FALSE
          /\ UNCHANGED db

\* conn.rollback(): everything pending on the connection is dropped
Rollback == /\ db' = disk
             /\ inTx' = FALSE
             /\ UNCHANGED disk

NoLedgerChange == UNCHANGED <<db, disk, inTx>>

\* kv_set(conn, k, v): upsert and commit
kv_set(field, key, v) == WriteCommit([db EXCEPT ![field][key] = v])

\* kv_set of a key that has no id in it (current_round_id, round:next_id)
kv_set1(field, v) == WriteCommit([db EXCEPT ![field] = v])

RoundExists(d, r) == r \in RoundIds /\ d.rounds[r].status # "NONE"

EntriesOf(d, r) == SelectSeq(d.entries, LAMBDA e : e.round = r)

SigUsed(d, sig) == \E i \in 1 .. Len(d.entries) : d.entries[i].sig = sig

----------------------------------------------------------------------------
(* Collaborators and history *)

\* a collaborator (chain reader, payout executor, ledger read) may raise
\* while the fault budget lasts
MayFail == env.fails < MaxFail
Fault == [env EXCEPT !.fails = @ + 1]

IdleSched == [pc |-> "top", rid |-> NoId, exc |-> "none"]

\* what the chain reader finds during one resolution: the positions that
\* have a block (a position without one answers None or raises), whether
\* get_latest_blockhash answers, the identifier read, and whether the reader
\* was called at all
NoView == [blocks |-> {}, latest |-> FALSE, h |-> "", asked |-> FALSE]

IdleCloser ==
    [ pc |-> "idle", rid |-> NoId, pot |-> 0, entries |-> <<>>, seed |-> NoSeed,
      entropy |-> "", pick |-> -1, winner |-> "", n |-> 0, newId |-> NoId,
      seed2 |-> NoSeed, credits |-> <<>>,
      fslot |-> NoSlot,          \* finalize_slot
      eff |-> NoSlot,            \* effective_slot
      \* what the chain held and which step gave the entropy (history, not
      \* read by the code)
      view |-> NoView, how |-> "" ]

IdleHandler ==
    [ pc |-> "idle", bet |-> "", choice |-> "", sig |-> "", amt |-> 0,
      from |-> "", rid |-> NoId, wager |-> 0, prev |-> "", paid |-> "",
      seed |-> NoSeed, cseed |-> "", win |-> -1, cred |-> 0,
      rest |-> <<>>,             \* the events of the batch not yet reached
      \* what the ledger held when the event arrived (history, not read by the code)
      was |-> [status |-> "", tx |-> "", quiet |-> FALSE, pot |-> 0, credit |-> 0] ]

IdleAdm == [pc |-> "idle", n |-> 0]

BootOff == [pc |-> "off", n |-> 0, rid |-> NoId, seed |-> NoSeed]

\* the settings read at import: SPLT_WIN, SPLT_DEV, SPLT_BURN, and whether
\* DEV_WALLET and BURN_ADDRESS are non-empty
DefaultSplit ==
    [win |-> SPLT_WIN, dev |-> SPLT_DEV, burn |-> SPLT_BURN,
     devWallet |-> TRUE, burnAddr |-> TRUE]

InitWith(cfg) ==
    /\ db = EmptyDb
    /\ disk = EmptyDb
    /\ inTx = FALSE
    /\ now = 0
    /\ boot = BootOff
    /\ sched = IdleSched
    /\ closer = [c \in Closers |-> IdleCloser]
    /\ wh = [h \in Handlers |-> IdleHandler]
    /\ adm = IdleAdm
    /\ env = [fails |-> 0, events |-> 0, restarts |-> 0, resets |-> 0, calls |-> 0,
              cfg |-> cfg]
    /\ log = [alloc |-> <<>>, pays |-> <<>>, settles |-> 0, sigs |-> {}, raw |-> <<>>]

Init == InitWith(DefaultSplit)

\* split settings an operator may configure: percentages, and whether the
\* dev wallet and the burn address are set
SplitCfgs ==
    {[win |-> t[1], dev |-> t[2], burn |-> t[3], devWallet |-> t[4], burnAddr |-> t[5]] :
        t \in {<<80, 10, 10, TRUE, TRUE>>, <<0, 0, 0, TRUE, TRUE>>,
               <<1, 1, 1, FALSE, TRUE>>, <<1, 1, 1, TRUE, FALSE>>,
               <<3, 3, 1, TRUE, TRUE>>, <<3, 3, 1, FALSE, FALSE>>}}

InitSplit == \E cfg \in SplitCfgs : InitWith(cfg)

\* a minute passes
Tick ==
    /\ now < MaxTime
    /\ now' = now + 1
    /\ UNCHANGED <<db, disk, inTx, boot, sched, closer, wh, adm, env, log>>

\* time passes until the open round is due
TimePasses ==
    /\ \E r \in RoundIds :
         /\ db.rounds[r].status = "OPEN"
         /\ db.rounds[r].closes > now
         /\ now' = db.rounds[r].closes
    /\ UNCHANGED <<db, disk, inTx, boot, sched, closer, wh, adm, env, log>>

----------------------------------------------------------------------------
(* alloc_next_round_id: kv_get, then kv_set of the value read plus one *)

\* n = int(cur or 0) + 1, from the value the caller read
AllocNext(read) == read + 1

\* kv_set(round:next_id, n) and the id returned to the caller
AllocWrite(read) ==
    /\ AllocNext(read) <= MaxId
    /\ kv_set1("nextId", AllocNext(read))
    /\ log' = [log EXCEPT !.alloc = Append(@, AllocNext(read))]

----------------------------------------------------------------------------
(* init_db.py: the one-shot initializer, run before the service starts *)

\* ensure_current_round: a round with a random id, if no pointer exists
ensure_current_round ==
    /\ boot.pc = "off"
    /\ db.cur = NoId
    /\ \E rid \in RoundIds :
         /\ ~RoundExists(db, rid)
         /\ WriteCommit([db EXCEPT
             !.rounds[rid] = [NoRound EXCEPT !.status = "OPEN",
                                             !.closes = now + INIT_ROUND_MIN,
                                             !.hash = SeedTagHash(rid)],
             !.cur = rid])
    /\ UNCHANGED <<now, boot, sched, closer, wh, adm, env, log>>

----------------------------------------------------------------------------
(* on_startup *)

\* current = kv_get(current_round_id)
\* the check as it would be if startup opened a round at every start
StartupCheck_Always ==
    /\ boot.pc = "off"
    /\ boot' = [boot EXCEPT !.pc = "alloc1"]
    /\ NoLedgerChange
    /\ UNCHANGED <<now, sched, closer, wh, adm, env, log>>

StartupCheck ==
    /\ boot.pc = "off"
    /\ boot' = [boot EXCEPT !.pc = IF db.cur # NoId THEN "up" ELSE "alloc1"]
    /\ NoLedgerChange
    /\ UNCHANGED <<now, sched, closer, wh, adm, env, log>>

StartupAllocRead ==
    /\ boot.pc = "alloc1"
    /\ boot' = [boot EXCEPT !.pc = "alloc2", !.n = db.nextId]
    /\ NoLedgerChange
    /\ UNCHANGED <<now, sched, closer, wh, adm, env, log>>

StartupAllocWrite ==
    /\ boot.pc = "alloc2"
    /\ AllocWrite(boot.n)
    /\ boot' = [boot EXCEPT !.pc = "seed", !.rid = AllocNext(boot.n)]
    /\ UNCHANGED <<now, sched, closer, wh, adm, env>>

\* round_srv = secrets.token_hex(32); kv_set(round:<rid>:server_seed)
StartupSeed ==
    /\ boot.pc = "seed"
    /\ \E s \in Seeds :
         /\ kv_set("rseed", boot.rid, s)
         /\ boot' = [boot EXCEPT !.pc = "slot", !.seed = s]
    /\ UNCHANGED <<now, sched, closer, wh, adm, env, log>>

\* curr_slot = await _rpc_get_slot(): the chain reader answers
StartupSlot ==
    /\ boot.pc = "slot"
    /\ boot' = [boot EXCEPT !.pc = "insert"]
    /\ NoLedgerChange
    /\ UNCHANGED <<now, sched, closer, wh, adm, env, log>>

\* ... or raises: startup fails and the process exits
StartupSlotRaises ==
    /\ boot.pc = "slot"
    /\ MayFail
    /\ env' = Fault
    /\ boot' = BootOff
    /\ Rollback
    /\ UNCHANGED <<now, sched, closer, wh, adm, log>>

\* INSERT INTO rounds ... 'OPEN' ...; a taken id raises and startup fails
StartupInsert ==
    /\ boot.pc = "insert"
    /\ IF RoundExists(db, boot.rid)
       THEN /\ boot' = BootOff
            /\ Rollback
       ELSE /\ Write([db EXCEPT !.rounds[boot.rid] =
                        [NoRound EXCEPT !.status = "OPEN",
                                        !.closes = now + ROUND_MIN,
                                        !.hash = _hash(boot.seed),
                                        !.fslot = FinalizeSlot(now)]])
            /\ boot' = [boot EXCEPT !.pc = "ptr"]
    /\ UNCHANGED <<now, sched, closer, wh, adm, env, log>>

\* kv_set(current_round_id, rid); commit; the scheduler task is created
StartupPointer ==
    /\ boot.pc = "ptr"
    /\ kv_set1("cur", boot.rid)
    /\ boot' = [BootOff EXCEPT !.pc = "up"]
    /\ UNCHANGED <<now, sched, closer, wh, adm, env, log>>

Startup ==
    \/ StartupCheck \/ StartupAllocRead \/ StartupAllocWrite \/ StartupSeed
    \/ StartupSlot \/ StartupSlotRaises \/ StartupInsert \/ StartupPointer

Up == boot.pc = "up"

\* the process dies and is started again: every coroutine is gone and the
\* pending writes of the connection are lost
Restart ==
    /\ boot.pc # "off"
    /\ env.restarts < MaxRestart
    /\ env' = [env EXCEPT !.restarts = @ + 1]
    /\ Rollback
    /\ boot' = BootOff
    /\ sched' = IdleSched
    /\ closer' = [c \in Closers |-> IdleCloser]
    /\ wh' = [h \in Handlers |-> IdleHandler]
    /\ adm' = IdleAdm
    /\ UNCHANGED <<now, log>>

----------------------------------------------------------------------------
(* round_scheduler: while True: try: ... except Exception: sleep *)

\* the loop as it would be without its top-level `except Exception`: an
\* exception of the first ledger read ends the coroutine
SchedOnException_Unhandled(kind) ==
    [pc |-> IF kind = "kv_get" THEN "dead" ELSE "sleep", rid |-> NoId, exc |-> kind]

\* what the loop does with an exception raised in an iteration: each handler
\* (the inner ones around the SELECT, the parse and admin_close_round, and the
\* top-level one) logs, sleeps, and the loop goes on
SchedOnException(kind) == [pc |-> "sleep", rid |-> NoId, exc |-> kind]

\* rid = await kv_get(current_round_id); no pointer: sleep and continue
SchedGetRid ==
    /\ Up
    /\ sched.pc = "top"
    /\ sched' = IF db.cur = NoId THEN [IdleSched EXCEPT !.pc = "sleep"]
                ELSE [IdleSched EXCEPT !.pc = "select", !.rid = db.cur]
    /\ UNCHANGED <<db, disk, inTx, now, boot, closer, wh, adm, env, log>>

\* the ledger read raises: the top-level handler catches it
SchedGetRidRaises ==
    /\ Up
    /\ sched.pc = "top"
    /\ MayFail
    /\ env' = Fault
    /\ sched' = SchedOnException("kv_get")
    /\ UNCHANGED <<db, disk, inTx, now, boot, closer, wh, adm, log>>

\* SELECT closes_at,status raises, or closes_at does not parse
SchedSelectRaises ==
    /\ Up
    /\ sched.pc = "select"
    /\ MayFail
    /\ env' = Fault
    /\ \E kind \in {"select", "parse"} : sched' = SchedOnException(kind)
    /\ UNCHANGED <<db, disk, inTx, now, boot, closer, wh, adm, log>>

\* status == "OPEN" and now >= closes_at, as the iteration reads them
SchedDue(d, rid, t) ==
    /\ RoundExists(d, rid)
    /\ d.rounds[rid].status = "OPEN"
    /\ t >= d.rounds[rid].closes

\* the row is read; not due (or no row): sleep
SchedNotDue ==
    /\ Up
    /\ sched.pc = "select"
    /\ ~SchedDue(db, sched.rid, now)
    /\ sched' = [sched EXCEPT !.pc = "sleep"]
    /\ UNCHANGED <<db, disk, inTx, now, boot, closer, wh, adm, env, log>>

\* due: await admin_close_round(auth=True)
SchedCallsClose ==
    /\ Up
    /\ sched.pc = "select"
    /\ SchedDue(db, sched.rid, now)
    /\ closer["sched"].pc = "idle"
    /\ sched' = [sched EXCEPT !.pc = "closing"]
    /\ closer' = [closer EXCEPT !["sched"] = [IdleCloser EXCEPT !.pc = "rid"]]
    /\ UNCHANGED <<db, disk, inTx, now, boot, wh, adm, env, log>>

\* asyncio.sleep is over: the next iteration (exc, the record of the failure
\* of the last iteration, is cleared by the first step of the next one)
SchedWake ==
    /\ Up
    /\ sched.pc = "sleep"
    /\ sched' = [sched EXCEPT !.pc = "top"]
    /\ UNCHANGED <<db, disk, inTx, now, boot, closer, wh, adm, env, log>>

Scheduler ==
    \/ SchedGetRid \/ SchedGetRidRaises \/ SchedSelectRaises
    \/ SchedNotDue \/ SchedCallsClose \/ SchedWake

----------------------------------------------------------------------------
(* admin_close_round: settle the current round, pay, open the next round,  *)
(* apply the credits.  Called by round_scheduler and by the admin endpoint. *)

\* the coroutine returns, or raises into its caller: round_scheduler catches
\* the exception and sleeps, the endpoint answers 500
CloseEnds(c, raises) ==
    /\ closer' = [closer EXCEPT ![c] = IdleCloser]
    /\ sched' = IF c # "sched" THEN sched
                ELSE IF raises THEN SchedOnException("close")
                ELSE [sched EXCEPT !.pc = "sleep"]

CloseGoes(c, f) ==
    /\ closer' = [closer EXCEPT ![c] = f]
    /\ UNCHANGED sched

\* total_tix = sum(int(t or 0) for _u, t in entries)
TotalTix(entries) == SumTickets(entries)

\* pick_space = int.from_bytes(_hmac(seed, entropy + rid), "big") % total_tix
PickSpace(seed, entropy, rid, total) ==
    _hmac(seed, StrCode(entropy) * 10 + rid) % total

RECURSIVE WalkEntries(_, _, _)
\* for u, t in entries: acc += t; if acc > pick_space: winner = u; break
WalkEntries(entries, acc, pick) ==
    IF entries = <<>> THEN ""
    ELSE IF acc + Head(entries).tickets > pick THEN Head(entries).user
         ELSE WalkEntries(Tail(entries), acc + Head(entries).tickets, pick)

\* the guard of the draw: if pot > 0 and total_tix > 0
DrawRuns(pot, entries) == pot > 0 /\ TotalTix(entries) > 0

\* the endpoint is called directly
AdminCloseCalled ==
    /\ Up
    /\ closer["admin"].pc = "idle"
    /\ env.calls < MaxCalls
    /\ env' = [env EXCEPT !.calls = @ + 1]
    /\ closer' = [closer EXCEPT !["admin"] = [IdleCloser EXCEPT !.pc = "rid"]]
    /\ UNCHANGED <<db, disk, inTx, now, boot, sched, wh, adm, log>>

\* rid = await kv_get(current_round_id)
CloseGetRid(c) ==
    /\ closer[c].pc = "rid"
    /\ CloseGoes(c, [closer[c] EXCEPT !.pc = "load", !.rid = db.cur])
    /\ UNCHANGED <<db, disk, inTx, now, boot, wh, adm, env, log>>

\* SELECT pot, ... FROM rounds WHERE id=?
CloseLoad(c) ==
    /\ closer[c].pc = "load"
    /\ CloseGoes(c, [closer[c] EXCEPT !.pc = "entries",
           !.pot = IF RoundExists(db, closer[c].rid)
                   THEN db.rounds[closer[c].rid].pot ELSE 0,
           !.fslot = IF RoundExists(db, closer[c].rid)
                     THEN db.rounds[closer[c].rid].fslot ELSE NoSlot])
    /\ UNCHANGED <<db, disk, inTx, now, boot, wh, adm, env, log>>

\* SELECT user, tickets FROM entries WHERE round_id=?
CloseEntries(c) ==
    /\ closer[c].pc = "entries"
    /\ CloseGoes(c, [closer[c] EXCEPT !.pc = "seed",
           !.entries = [i \in 1 .. Len(EntriesOf(db, closer[c].rid)) |->
                          [user |-> EntriesOf(db, closer[c].rid)[i].user,
                           tickets |-> EntriesOf(db, closer[c].rid)[i].tickets]]])
    /\ UNCHANGED <<db, disk, inTx, now, boot, wh, adm, env, log>>

\* round_server_seed = await kv_get(round:<rid>:server_seed)
CloseSeed(c) ==
    /\ closer[c].pc = "seed"
    /\ CloseGoes(c, [closer[c] EXCEPT
           !.pc = IF db.rseed[closer[c].rid] = NoSeed THEN "seedgen" ELSE "entropy",
           !.seed = db.rseed[closer[c].rid]])
    /\ UNCHANGED <<db, disk, inTx, now, boot, wh, adm, env, log>>

\* missing: round_server_seed = secrets.token_hex(32); kv_set(...)
CloseSeedGen(c) ==
    /\ closer[c].pc = "seedgen"
    /\ \E s \in Seeds :
         /\ kv_set("rseed", closer[c].rid, s)
         /\ CloseGoes(c, [closer[c] EXCEPT !.pc = "entropy", !.seed = s])
    /\ UNCHANGED <<now, boot, wh, adm, env, log>>

\* the positions the backward walk reads: slot - 1 down to slot - search_back,
\* ended by s <= 0
BackwardWindow(slot) == {s \in slot - SEARCH_BACK .. slot - 1 : s > 0}

\* the positions the forward walk reads
ForwardWindow(slot) == slot + 1 .. slot + SEARCH_FORWARD

Highest(S) == CHOOSE s \in S : \A t \in S : t <= s
Lowest(S) == CHOOSE s \in S : \A t \in S : s <= t

\* _rpc_get_blockhash_fallback(slot): 1) the exact slot, 2) the walk
\* backward, 3) the small forward window, 4) the latest blockhash, with no
\* position; else (None, None)
_rpc_get_blockhash_fallback(slot, view) ==
    LET back == view.blocks \cap BackwardWindow(slot)
        fwd == view.blocks \cap ForwardWindow(slot)
    IN  IF slot \in view.blocks THEN [h |-> view.h, slot |-> slot, how |-> "exact"]
        ELSE IF back # {} THEN [h |-> view.h, slot |-> Highest(back), how |-> "back"]
        ELSE IF fwd # {} THEN [h |-> view.h, slot |-> Lowest(fwd), how |-> "forward"]
        ELSE IF view.latest THEN [h |-> view.h, slot |-> NoSlot, how |-> "latest"]
        ELSE [h |-> "", slot |-> NoSlot, how |-> ""]

\* if finalize_slot: entropy, effective_slot = await
\* _rpc_get_blockhash_fallback(finalize_slot), on a chain that holds view;
\* then, if not entropy, the SELECT of the last entry; else, when the slot
\* used is another one than the planned one, the UPDATE of finalize_slot
CloseEntropyFrom(c, views) ==
    /\ closer[c].pc = "entropy"
    /\ closer[c].fslot # NoSlot
    /\ \E view \in views :
         LET got == _rpc_get_blockhash_fallback(closer[c].fslot, view)
         IN  CloseGoes(c, [closer[c] EXCEPT
                 !.view = view, !.entropy = got.h, !.eff = got.slot, !.how = got.how,
                 !.pc = IF got.h = "" THEN "lastsig"
                        ELSE IF got.slot # NoSlot /\ got.slot # closer[c].fslot
                             THEN "slotfix" ELSE "entkv"])
    /\ UNCHANGED <<db, disk, inTx, now, boot, wh, adm, env, log>>

\* the planned slot has its block
ExactViews(slot) ==
    {[blocks |-> {slot}, latest |-> TRUE, h |-> h, asked |-> TRUE] : h \in BlockHashes}

CloseEntropy(c) == CloseEntropyFrom(c, ExactViews(closer[c].fslot))

\* ... or nothing, when the chain reader fails at every step
CloseEntropyFails(c) ==
    /\ closer[c].pc = "entropy"
    /\ closer[c].fslot # NoSlot
    /\ MayFail
    /\ env' = Fault
    /\ CloseGoes(c, [closer[c] EXCEPT !.pc = "lastsig",
                                      !.view = [NoView EXCEPT !.asked = TRUE]])
    /\ UNCHANGED <<db, disk, inTx, now, boot, wh, adm, log>>

\* the planned slot has no block: blocks at the edges of the two windows and
\* just outside them, and the latest blockhash
ScanViews(slot) ==
    {[blocks |-> B, latest |-> TRUE, h |-> "bh1", asked |-> TRUE] :
        B \in {{slot - 1, slot + 1},
               {slot - SEARCH_BACK, slot + 1},
               {slot - SEARCH_BACK - 1, slot + SEARCH_FORWARD},
               {slot - SEARCH_BACK - 1, slot + SEARCH_FORWARD + 1}}}

CloseEntropyScans(c) == CloseEntropyFrom(c, ScanViews(closer[c].fslot))

\* UPDATE rounds SET finalize_slot=? WHERE id=?; finalize_slot = effective_slot
CloseSlotFix(c) ==
    /\ closer[c].pc = "slotfix"
    /\ Write([db EXCEPT !.rounds[closer[c].rid].fslot = closer[c].eff])
    /\ CloseGoes(c, [closer[c] EXCEPT !.pc = "slotfix2", !.fslot = closer[c].eff])
    /\ UNCHANGED <<now, boot, wh, adm, env, log>>

\* await app.state.db.commit()
CloseSlotFixCommit(c) ==
    /\ closer[c].pc = "slotfix2"
    /\ Commit
    /\ CloseGoes(c, [closer[c] EXCEPT !.pc = "entkv"])
    /\ UNCHANGED <<now, boot, wh, adm, env, log>>

\* if not entropy (finalize_slot is NULL or 0, or the reader gave nothing):
\* SELECT tx_sig FROM entries WHERE round_id=? ORDER BY id DESC LIMIT 1;
\* entropy = last[0] if last and last[0] else secrets.token_hex(16)
CloseLastSig(c) ==
    /\ \/ closer[c].pc = "lastsig"
       \/ closer[c].pc = "entropy" /\ closer[c].fslot = NoSlot
    /\ LET es == EntriesOf(db, closer[c].rid)
           last == es # <<>> /\ es[Len(es)].sig # ""
       IN  CloseGoes(c, [closer[c] EXCEPT !.pc = "entkv",
               !.entropy = IF last THEN es[Len(es)].sig ELSE RandomToken,
               !.how = IF last THEN "entry" ELSE "token"])
    /\ UNCHANGED <<db, disk, inTx, now, boot, wh, adm, env, log>>

\* kv_set(round:<rid>:entropy, entropy)
CloseEntropyKv(c) ==
    /\ closer[c].pc = "entkv"
    /\ kv_set("rentropy", closer[c].rid, closer[c].entropy)
    /\ CloseGoes(c, [closer[c] EXCEPT
           !.pc = IF closer[c].fslot # NoSlot THEN "entslot" ELSE "draw"])
    /\ UNCHANGED <<now, boot, wh, adm, env, log>>

\* if finalize_slot: kv_set(round:<rid>:entropy_slot, str(finalize_slot))
CloseEntropySlotKv(c) ==
    /\ closer[c].pc = "entslot"
    /\ kv_set("rslot", closer[c].rid, closer[c].fslot)
    /\ CloseGoes(c, [closer[c] EXCEPT !.pc = "draw"])
    /\ UNCHANGED <<now, boot, wh, adm, env, log>>

\* the weighted draw, then UPDATE rounds SET server_seed_reveal
CloseDraw(c) ==
    /\ closer[c].pc = "draw"
    /\ DrawRuns(closer[c].pot, closer[c].entries)
    /\ LET pick == PickSpace(closer[c].seed, closer[c].entropy, closer[c].rid,
                             TotalTix(closer[c].entries))
       IN  CloseGoes(c, [closer[c] EXCEPT !.pc = "drawkv", !.pick = pick,
               !.winner = WalkEntries(closer[c].entries, 0, pick)])
    /\ Write([db EXCEPT !.rounds[closer[c].rid].reveal = closer[c].seed])
    /\ UNCHANGED <<now, boot, wh, adm, env, log>>

\* kv_set(round:<rid>:entropy, entropy_str) once more
CloseDrawKv(c) ==
    /\ closer[c].pc = "drawkv"
    /\ kv_set("rentropy", closer[c].rid, closer[c].entropy)
    /\ CloseGoes(c, [closer[c] EXCEPT
           !.pc = IF closer[c].fslot # NoSlot THEN "drawslot" ELSE "pay"])
    /\ UNCHANGED <<now, boot, wh, adm, env, log>>

\* if finalize_slot: kv_set(round:<rid>:entropy_slot, ...) once more
CloseDrawSlotKv(c) ==
    /\ closer[c].pc = "drawslot"
    /\ kv_set("rslot", closer[c].rid, closer[c].fslot)
    /\ CloseGoes(c, [closer[c] EXCEPT !.pc = "pay"])
    /\ UNCHANGED <<now, boot, wh, adm, env, log>>

\* total_pct = max(1, SPLT_WIN + SPLT_DEV + SPLT_BURN)
TotalPct(cfg) ==
    IF cfg.win + cfg.dev + cfg.burn > 1 THEN cfg.win + cfg.dev + cfg.burn ELSE 1

\* win_amt, dev_amt, burn_amt before the remainder is adjusted
FloorShares(pot, cfg) ==
    [win |-> (pot * cfg.win) \div TotalPct(cfg),
     dev |-> IF cfg.devWallet THEN (pot * cfg.dev) \div TotalPct(cfg) ELSE 0,
     burn |-> IF cfg.burnAddr THEN (pot * cfg.burn) \div TotalPct(cfg) ELSE 0]

\* remainder = pot - (win_amt + dev_amt + burn_amt); win_amt += remainder
PotSplit(pot, cfg) ==
    LET f == FloorShares(pot, cfg)
    IN  [f EXCEPT !.win = @ + (pot - (f.win + f.dev + f.burn))]

\* the call pay_jackpot_split(winner_addr, win_amt, DEV_WALLET, dev_amt,
\* BURN_ADDRESS, burn_amt) as the Payout Executor receives it
JackpotPay(c, ok) ==
    [kind |-> "jackpot", id |-> RoundName(closer[c].rid),
     to |-> closer[c].winner, pot |-> closer[c].pot,
     amt |-> PotSplit(closer[c].pot, env.cfg).win,
     dev |-> PotSplit(closer[c].pot, env.cfg).dev,
     burn |-> PotSplit(closer[c].pot, env.cfg).burn, ok |-> ok]

\* payout_sig = await pay_jackpot_split(...)
ClosePay(c) ==
    /\ closer[c].pc = "pay"
    /\ log' = [log EXCEPT !.pays = Append(@, JackpotPay(c, TRUE))]
    /\ CloseGoes(c, [closer[c] EXCEPT !.pc = "paid1"])
    /\ UNCHANGED <<db, disk, inTx, now, boot, wh, adm, env>>

\* ... which raises: except Exception as e
ClosePayRaises(c) ==
    /\ closer[c].pc = "pay"
    /\ MayFail
    /\ env' = Fault
    /\ log' = [log EXCEPT !.pays = Append(@, JackpotPay(c, FALSE))]
    /\ CloseGoes(c, [closer[c] EXCEPT !.pc = "payerr"])
    /\ UNCHANGED <<db, disk, inTx, now, boot, wh, adm>>

\* kv_set(round:<rid>:winner, winner_addr)
ClosePaid1(c) ==
    /\ closer[c].pc = "paid1"
    /\ kv_set("rwinner", closer[c].rid, closer[c].winner)
    /\ CloseGoes(c, [closer[c] EXCEPT !.pc = "paid2"])
    /\ UNCHANGED <<now, boot, wh, adm, env, log>>

\* kv_set(round:<rid>:payout_sig, payout_sig); kv_set(round:<rid>:split, ...)
ClosePaid2(c) ==
    /\ closer[c].pc = "paid2"
    /\ kv_set("rpaysig", closer[c].rid, "sigJ")
    /\ CloseGoes(c, [closer[c] EXCEPT !.pc = "settle"])
    /\ UNCHANGED <<now, boot, wh, adm, env, log>>

\* kv_set(round:<rid>:payout_error, str(e))
ClosePayErr(c) ==
    /\ closer[c].pc = "payerr"
    /\ kv_set("rpayerr", closer[c].rid, "error")
    /\ CloseGoes(c, [closer[c] EXCEPT !.pc = "settle"])
    /\ UNCHANGED <<now, boot, wh, adm, env, log>>

\* no draw: straight to UPDATE rounds SET status='SETTLED'
CloseNoDraw(c) ==
    /\ closer[c].pc = "draw"
    /\ ~DrawRuns(closer[c].pot, closer[c].entries)
    /\ Write([db EXCEPT !.rounds[closer[c].rid].status = "SETTLED"])
    /\ CloseGoes(c, [closer[c] EXCEPT !.pc = "alloc1"])
    /\ UNCHANGED <<now, boot, wh, adm, env, log>>

\* UPDATE rounds SET status='SETTLED' WHERE id=?
CloseSettle(c) ==
    /\ closer[c].pc = "settle"
    /\ Write([db EXCEPT !.rounds[closer[c].rid].status = "SETTLED"])
    /\ CloseGoes(c, [closer[c] EXCEPT !.pc = "alloc1"])
    /\ UNCHANGED <<now, boot, wh, adm, env, log>>

\* new_id = await alloc_next_round_id(): the kv_get
CloseAllocRead(c) ==
    /\ closer[c].pc = "alloc1"
    /\ CloseGoes(c, [closer[c] EXCEPT !.pc = "alloc2", !.n = db.nextId])
    /\ UNCHANGED <<db, disk, inTx, now, boot, wh, adm, env, log>>

\* ... and the kv_set
CloseAllocWrite(c) ==
    /\ closer[c].pc = "alloc2"
    /\ AllocWrite(closer[c].n)
    /\ CloseGoes(c, [closer[c] EXCEPT !.pc = "newseed",
                                      !.newId = AllocNext(closer[c].n)])
    /\ UNCHANGED <<now, boot, wh, adm, env>>

\* new_round_srv = secrets.token_hex(32); kv_set(round:<new_id>:server_seed)
CloseNewSeed(c) ==
    /\ closer[c].pc = "newseed"
    /\ \E s \in Seeds :
         /\ kv_set("rseed", closer[c].newId, s)
         /\ CloseGoes(c, [closer[c] EXCEPT !.pc = "slot", !.seed2 = s])
    /\ UNCHANGED <<now, boot, wh, adm, env, log>>

\* curr_slot = await _rpc_get_slot()
CloseSlot(c) ==
    /\ closer[c].pc = "slot"
    /\ CloseGoes(c, [closer[c] EXCEPT !.pc = "insert"])
    /\ UNCHANGED <<db, disk, inTx, now, boot, wh, adm, env, log>>

\* ... which raises: nothing in admin_close_round catches it
CloseSlotRaises(c) ==
    /\ closer[c].pc = "slot"
    /\ MayFail
    /\ env' = Fault
    /\ CloseEnds(c, TRUE)
    /\ UNCHANGED <<db, disk, inTx, now, boot, wh, adm, log>>

\* the row of the next round: OPEN, pot 0, closes ROUND_BREAK + ROUND_MIN
\* minutes from now, the hash of its secret
NewRound(t, seed) ==
    [NoRound EXCEPT !.status = "OPEN",
                    !.closes = t + ROUND_BREAK + ROUND_MIN,
                    !.hash = _hash(seed),
                    !.fslot = FinalizeSlot(t)]

\* INSERT INTO rounds(...) VALUES(new_id, 'OPEN', ...)
CloseInsert(c) ==
    /\ closer[c].pc = "insert"
    /\ ~RoundExists(db, closer[c].newId)
    /\ Write([db EXCEPT !.rounds[closer[c].newId] = NewRound(now, closer[c].seed2)])
    /\ CloseGoes(c, [closer[c] EXCEPT !.pc = "ptr"])
    /\ UNCHANGED <<now, boot, wh, adm, env, log>>

\* ... which raises when a row has that id already (PRIMARY KEY)
CloseInsertRaises(c) ==
    /\ closer[c].pc = "insert"
    /\ RoundExists(db, closer[c].newId)
    /\ CloseEnds(c, TRUE)
    /\ UNCHANGED <<db, disk, inTx, now, boot, wh, adm, env, log>>

\* kv_set(current_round_id, new_id)
ClosePointer(c) ==
    /\ closer[c].pc = "ptr"
    /\ kv_set1("cur", closer[c].newId)
    /\ CloseGoes(c, [closer[c] EXCEPT !.pc = "commit"])
    /\ UNCHANGED <<now, boot, wh, adm, env, log>>

\* the wallets of the rows of SELECT k, v FROM kv WHERE k LIKE
\* 'raffle_credit:%' that the loop converts (credit >= TICKET_PRICE), with
\* the credit read
CreditRows(d) ==
    SelectSeq([i \in 1 .. Len(WalletSeq) |->
                  [owner |-> WalletSeq[i], credit |-> d.credit[WalletSeq[i]]]],
              LAMBDA row : row.credit >= TICKET_PRICE)

\* await app.state.db.commit(); then the SELECT of the credits
CloseCommit(c) ==
    /\ closer[c].pc = "commit"
    /\ Commit
    /\ CloseGoes(c, [closer[c] EXCEPT !.pc = "credits"])
    /\ UNCHANGED <<now, boot, wh, adm, env, log>>

CloseCredits(c) ==
    /\ closer[c].pc = "credits"
    /\ CloseGoes(c, [closer[c] EXCEPT !.pc = "sweep",
                                      !.credits = CreditRows(db)])
    /\ UNCHANGED <<db, disk, inTx, now, boot, wh, adm, env, log>>

\* f"auto_credit_{new_id}_{owner[:6]}"
AutoCreditSig(newId, owner) ==
    "auto_credit_" \o RoundName(newId) \o "_" \o SubSeq(owner, 1, 6)

\* INSERT INTO entries(round_id,user,tickets,tx_sig) for the next credit row
CloseSweepInsert(c) ==
    /\ closer[c].pc = "sweep"
    /\ closer[c].credits # <<>>
    /\ LET row == Head(closer[c].credits)
           sig == AutoCreditSig(closer[c].newId, row.owner)
       IN  /\ ~SigUsed(db, sig)
           /\ Write([db EXCEPT !.entries = Append(@,
                  [round |-> closer[c].newId, user |-> row.owner,
                   tickets |-> row.credit \div TICKET_PRICE, sig |-> sig])])
    /\ CloseGoes(c, [closer[c] EXCEPT !.pc = "sweeppot"])
    /\ UNCHANGED <<now, boot, wh, adm, env, log>>

\* ... which raises when the reference is taken (UNIQUE idx_entries_txsig)
CloseSweepInsertRaises(c) ==
    /\ closer[c].pc = "sweep"
    /\ closer[c].credits # <<>>
    /\ SigUsed(db, AutoCreditSig(closer[c].newId, Head(closer[c].credits).owner))
    /\ CloseEnds(c, TRUE)
    /\ UNCHANGED <<db, disk, inTx, now, boot, wh, adm, env, log>>

\* UPDATE rounds SET pot = COALESCE(pot,0) + extra_tix * TICKET_PRICE
CloseSweepPot(c) ==
    /\ closer[c].pc = "sweeppot"
    /\ LET row == Head(closer[c].credits)
       IN  Write([db EXCEPT !.rounds[closer[c].newId].pot =
                     @ + (row.credit \div TICKET_PRICE) * TICKET_PRICE])
    /\ CloseGoes(c, [closer[c] EXCEPT !.pc = "sweepkv"])
    /\ UNCHANGED <<now, boot, wh, adm, env, log>>

\* kv_set(k, str(rem))
CloseSweepKv(c) ==
    /\ closer[c].pc = "sweepkv"
    /\ LET row == Head(closer[c].credits)
       IN  kv_set("credit", row.owner, row.credit % TICKET_PRICE)
    /\ CloseGoes(c, [closer[c] EXCEPT !.pc = "sweep", !.credits = Tail(@)])
    /\ UNCHANGED <<now, boot, wh, adm, env, log>>

\* the loop is over: await app.state.db.commit(); return
CloseReturns(c) ==
    /\ closer[c].pc = "sweep"
    /\ closer[c].credits = <<>>
    /\ Commit
    /\ CloseEnds(c, FALSE)
    /\ UNCHANGED <<now, boot, wh, adm, env, log>>

\* the steps of the settlement and payout
CloseSettles(c) ==
    \/ CloseGetRid(c) \/ CloseLoad(c) \/ CloseEntries(c) \/ CloseSeed(c)
    \/ CloseEntropy(c) \/ CloseEntropyFails(c) \/ CloseLastSig(c)
    \/ CloseEntropyKv(c) \/ CloseEntropySlotKv(c) \/ CloseNoDraw(c)

\* the resolution of the entropy when the planned slot has no block
CloseScans(c) ==
    \/ CloseEntropyScans(c) \/ CloseSlotFix(c) \/ CloseSlotFixCommit(c)

CloseDraws(c) ==
    \/ CloseDraw(c) \/ CloseDrawKv(c) \/ CloseDrawSlotKv(c)
    \/ ClosePay(c) \/ ClosePayRaises(c)
    \/ ClosePaid1(c) \/ ClosePaid2(c) \/ ClosePayErr(c) \/ CloseSettle(c)

\* the steps that open the next round
CloseReopens(c) ==
    \/ CloseAllocRead(c) \/ CloseAllocWrite(c) \/ CloseNewSeed(c)
    \/ CloseSlot(c) \/ CloseSlotRaises(c) \/ CloseInsert(c)
    \/ ClosePointer(c) \/ CloseCommit(c) \/ CloseCredits(c) \/ CloseReturns(c)

CloseSweeps(c) ==
    \/ CloseSweepInsert(c) \/ CloseSweepPot(c) \/ CloseSweepKv(c)

----------------------------------------------------------------------------
(* The admin endpoints admin_seed_rounds and admin_reset_round_counter *)

\* pot = secrets.randbelow(4_000_000_000)
SeedPots == {0, TICKET_PRICE}

\* POST /admin/round/seed with n = 1: rid = await alloc_next_round_id()
AdminSeedCalled ==
    /\ Up
    /\ adm.pc = "idle"
    /\ env.calls < MaxCalls
    /\ env' = [env EXCEPT !.calls = @ + 1]
    /\ adm' = [adm EXCEPT !.pc = "alloc2", !.n = db.nextId]
    /\ UNCHANGED <<db, disk, inTx, now, boot, sched, closer, wh, log>>

AdminSeedAllocWrite ==
    /\ adm.pc = "alloc2"
    /\ AllocWrite(adm.n)
    /\ adm' = [adm EXCEPT !.pc = "insert", !.n = AllocNext(adm.n)]
    /\ UNCHANGED <<now, boot, sched, closer, wh, env>>

\* INSERT OR REPLACE INTO rounds(...) VALUES(rid, 'SETTLED', ...)
AdminSeedInsert ==
    /\ adm.pc = "insert"
    /\ \E pot \in SeedPots :
         Write([db EXCEPT !.rounds[adm.n] =
                  [NoRound EXCEPT !.status = "SETTLED", !.pot = pot,
                                  !.closes = now, !.hash = SeedTagHash(adm.n)]])
    /\ adm' = [adm EXCEPT !.pc = "commit"]
    /\ UNCHANGED <<now, boot, sched, closer, wh, env, log>>

\* await app.state.db.commit()
AdminSeedCommit ==
    /\ adm.pc = "commit"
    /\ Commit
    /\ adm' = IdleAdm
    /\ UNCHANGED <<now, boot, sched, closer, wh, env, log>>

admin_seed_rounds ==
    \/ AdminSeedCalled \/ AdminSeedAllocWrite \/ AdminSeedInsert \/ AdminSeedCommit

\* POST /admin/round/reset_counter: kv_set(round:next_id, str(v))
admin_reset_round_counter ==
    /\ Up
    /\ env.resets < MaxReset
    /\ env' = [env EXCEPT !.resets = @ + 1]
    /\ \E v \in 0 .. MaxId - 1 : kv_set1("nextId", v)
    /\ UNCHANGED <<now, boot, sched, closer, wh, adm, log>>

----------------------------------------------------------------------------
(* helius_webhook, jackpot entries: memo "JP:<round_id>:<nonce>" *)

\* the raffle deposits the event source may deliver, each any number of times
JpEvents ==
    { [sig |-> "tx1", from |-> "AAAAAA1", amt |-> 3 * TICKET_PRICE, round |-> NoId],
      [sig |-> "tx2", from |-> "BBBBBB1",
       amt |-> 2 * TICKET_PRICE + TICKET_PRICE \div 2, round |-> NoId],
      [sig |-> "tx3", from |-> "AAAAAA1", amt |-> TICKET_PRICE \div 2, round |-> NoId] }

\* tickets = amt // TICKET_PRICE; remainder = amt - tickets * TICKET_PRICE
Tickets(amt) == amt \div TICKET_PRICE
Remainder(amt) == amt - Tickets(amt) * TICKET_PRICE

Delivered(ev) == [env EXCEPT !.events = @ + 1]

WhGoes(h, f) == wh' = [wh EXCEPT ![h] = f]

\* no other webhook request is being handled
OthersIdle(h) == \A g \in Handlers \ {h} : wh[g].pc = "idle"

\* round_id = parts[1] if the memo names a round, else the pointer
RoundOf(ev) == IF ev.round # NoId THEN ev.round ELSE db.cur

\* a deposit event arrives; a memo without a round id reads the pointer:
\* round_id = await kv_get(current_round_id)
JpArrivesUpTo(h, events, n) ==
    /\ Up
    /\ wh[h].pc = "idle"
    /\ env.events < n
    /\ \E ev \in events :
         /\ ev.amt > 0
         /\ env' = Delivered(ev)
         /\ log' = [log EXCEPT !.sigs = @ \cup {ev.sig}]
         /\ WhGoes(h, [IdleHandler EXCEPT !.pc = "jp_begin", !.sig = ev.sig,
                          !.amt = ev.amt, !.from = ev.from,
                          !.rid = RoundOf(ev),
                          !.was = [status |-> IF ev.sig \in log.sigs
                                              THEN "SEEN" ELSE "",
                                   tx |-> "", quiet |-> OthersIdle(h),
                                   pot |-> IF RoundExists(db, RoundOf(ev))
                                           THEN db.rounds[RoundOf(ev)].pot ELSE 0,
                                   credit |-> db.credit[ev.from]]])
    /\ UNCHANGED <<db, disk, inTx, now, boot, sched, closer, adm>>

JpArrivesFrom(h, events) == JpArrivesUpTo(h, events, MaxEvents)

JpArrives(h) == JpArrivesFrom(h, JpEvents)

\* a round id no round has
UnknownRound == 9

\* deposits whose memo names a round, "JP:<round_id>": a round that does not
\* exist, the first round, and a memo without a round
JpMemoEvents ==
    { [sig |-> "tx1", from |-> "AAAAAA1", amt |-> 3 * TICKET_PRICE, round |-> UnknownRound],
      [sig |-> "tx2", from |-> "BBBBBB1", amt |-> 2 * TICKET_PRICE, round |-> 1],
      [sig |-> "tx3", from |-> "AAAAAA1",
       amt |-> TICKET_PRICE + TICKET_PRICE \div 2, round |-> NoId] }

JpMemoArrives(h) == JpArrivesFrom(h, JpMemoEvents)

\* deposits of one wallet that leave a remainder: half a ticket, and one
\* ticket and a half
CreditEvents ==
    { [sig |-> "tx3", from |-> "AAAAAA1", amt |-> TICKET_PRICE \div 2, round |-> NoId],
      [sig |-> "tx2", from |-> "AAAAAA1",
       amt |-> TICKET_PRICE + TICKET_PRICE \div 2, round |-> NoId] }

JpCreditArrives(h) == JpArrivesUpTo(h, CreditEvents, MaxDeposits)

\* await app.state.db.execute("BEGIN")
JpBegin(h) ==
    /\ wh[h].pc = "jp_begin"
    /\ ~inTx
    /\ inTx' = TRUE
    /\ WhGoes(h, [wh[h] EXCEPT !.pc =
          IF Tickets(wh[h].amt) > 0 THEN "jp_insert"
          ELSE IF Remainder(wh[h].amt) > 0 THEN "jp_credget" ELSE "jp_commit"])
    /\ UNCHANGED <<db, disk, now, boot, sched, closer, adm, env, log>>

\* ... raises inside an open transaction of the connection
JpBeginRaises(h) ==
    /\ wh[h].pc = "jp_begin"
    /\ inTx
    /\ WhGoes(h, [wh[h] EXCEPT !.pc = "jp_rollback"])
    /\ UNCHANGED <<db, disk, inTx, now, boot, sched, closer, adm, env, log>>

\* the INSERT is refused: UNIQUE idx_entries_txsig, FOREIGN KEY round_id
EntryRefused(d, rid, sig) == SigUsed(d, sig) \/ ~RoundExists(d, rid)

\* INSERT INTO entries(round_id,user,tickets,tx_sig)
JpInsert(h) ==
    /\ wh[h].pc = "jp_insert"
    /\ ~EntryRefused(db, wh[h].rid, wh[h].sig)
    /\ Write([db EXCEPT !.entries = Append(@,
           [round |-> wh[h].rid, user |-> wh[h].from,
            tickets |-> Tickets(wh[h].amt), sig |-> wh[h].sig])])
    /\ WhGoes(h, [wh[h] EXCEPT !.pc = "jp_pot"])
    /\ UNCHANGED <<now, boot, sched, closer, adm, env, log>>

JpInsertRaises(h) ==
    /\ wh[h].pc = "jp_insert"
    /\ EntryRefused(db, wh[h].rid, wh[h].sig)
    /\ WhGoes(h, [wh[h] EXCEPT !.pc = "jp_rollback"])
    /\ UNCHANGED <<db, disk, inTx, now, boot, sched, closer, adm, env, log>>

\* UPDATE rounds SET pot = COALESCE(pot,0) + tickets * TICKET_PRICE
JpPot(h) ==
    /\ wh[h].pc = "jp_pot"
    /\ Write([db EXCEPT !.rounds[wh[h].rid].pot =
                 @ + Tickets(wh[h].amt) * TICKET_PRICE])
    /\ WhGoes(h, [wh[h] EXCEPT !.pc =
          IF Remainder(wh[h].amt) > 0 THEN "jp_credget" ELSE "jp_commit"])
    /\ UNCHANGED <<now, boot, sched, closer, adm, env, log>>

\* existing = await kv_get(raffle_credit:<sender>)
JpCreditGet(h) ==
    /\ wh[h].pc = "jp_credget"
    /\ WhGoes(h, [wh[h] EXCEPT !.pc = "jp_credset", !.cred = db.credit[wh[h].from]])
    /\ UNCHANGED <<db, disk, inTx, now, boot, sched, closer, adm, env, log>>

\* await kv_set(key, str(cur + remainder))
JpCreditSet(h) ==
    /\ wh[h].pc = "jp_credset"
    /\ kv_set("credit", wh[h].from, wh[h].cred + Remainder(wh[h].amt))
    /\ WhGoes(h, [wh[h] EXCEPT !.pc = "jp_commit"])
    /\ UNCHANGED <<now, boot, sched, closer, adm, env, log>>

\* await app.state.db.commit(); the loop goes on to the next event of the
\* batch, or the request is answered
JpCommit(h) ==
    /\ wh[h].pc = "jp_commit"
    /\ Commit
    /\ WhGoes(h, IF wh[h].rest = <<>> THEN IdleHandler
                 ELSE [wh[h] EXCEPT !.pc = "jp_next"])
    /\ UNCHANGED <<now, boot, sched, closer, adm, env, log>>

\* except Exception: await app.state.db.rollback(); raise: the exception
\* leaves the loop over the events and the request fails
JpRollback(h) ==
    /\ wh[h].pc = "jp_rollback"
    /\ Rollback
    /\ WhGoes(h, IdleHandler)
    /\ UNCHANGED <<now, boot, sched, closer, adm, env, log>>

\* the handler as it starts on a raffle deposit: round_id from the memo or
\* from kv_get(current_round_id), with the events that follow it
JpStart(h, ev, rest) ==
    [IdleHandler EXCEPT !.pc = "jp_begin", !.sig = ev.sig,
        !.amt = ev.amt, !.from = ev.from, !.rid = RoundOf(ev), !.rest = rest,
        !.was = [status |-> IF ev.sig \in log.sigs THEN "SEEN" ELSE "",
                 tx |-> "", quiet |-> OthersIdle(h),
                 pot |-> IF RoundExists(db, RoundOf(ev))
                         THEN db.rounds[RoundOf(ev)].pot ELSE 0,
                 credit |-> db.credit[ev.from]]]

\* the batches the event source may deliver: a deposit alone, and the same
\* deposit followed by another one
Batches ==
    { << [sig |-> "tx1", from |-> "AAAAAA1", amt |-> 3 * TICKET_PRICE, round |-> NoId] >>,
      << [sig |-> "tx1", from |-> "AAAAAA1", amt |-> 3 * TICKET_PRICE, round |-> NoId],
         [sig |-> "tx2", from |-> "BBBBBB1",
          amt |-> 2 * TICKET_PRICE + TICKET_PRICE \div 2, round |-> NoId] >> }

\* events = payload if isinstance(payload, list) else [payload]; the first
\* event of the batch
JpBatchArrives(h) ==
    /\ Up
    /\ wh[h].pc = "idle"
    /\ env.events < MaxEvents
    /\ \E batch \in Batches :
         /\ env' = Delivered(Head(batch))
         /\ log' = [log EXCEPT !.sigs = @ \cup {Head(batch).sig}]
         /\ WhGoes(h, JpStart(h, Head(batch), Tail(batch)))
    /\ UNCHANGED <<db, disk, inTx, now, boot, sched, closer, adm>>

\* for ev in events: the next event of the batch
JpNext(h) ==
    /\ wh[h].pc = "jp_next"
    /\ log' = [log EXCEPT !.sigs = @ \cup {Head(wh[h].rest).sig}]
    /\ WhGoes(h, JpStart(h, Head(wh[h].rest), Tail(wh[h].rest)))
    /\ UNCHANGED <<db, disk, inTx, now, boot, sched, closer, adm, env>>

\* the JP branch from BEGIN on
JpSteps(h) ==
    \/ JpBegin(h) \/ JpBeginRaises(h) \/ JpInsert(h)
    \/ JpInsertRaises(h) \/ JpPot(h) \/ JpCreditGet(h) \/ JpCreditSet(h)
    \/ JpCommit(h) \/ JpRollback(h)

JpHandler(h) == JpArrives(h) \/ JpSteps(h)

----------------------------------------------------------------------------
(* create_bet, and helius_webhook, coin flip deposits: memo "BET:<id>:<side>" *)

\* the wager of the bets placed and the client seed secrets.token_hex(8) gives
Wager == 1000000
ClientSeed == "c1"

\* POST /bets: kv_set(bet:<id>:server_seed), INSERT INTO bets ... 'PENDING',
\* commit; the bet id is known to nobody before the request is answered
create_bet ==
    /\ Up
    /\ \E b \in BetIds, side \in Sides, s \in Seeds :
         /\ db.bets[b].status = "NONE"
         /\ WriteCommit([db EXCEPT
                !.bseed[b] = s,
                !.bets[b] = [NoBet EXCEPT !.status = "PENDING", !.wager = Wager,
                                          !.side = side, !.cseed = ClientSeed,
                                          !.hash = _hash(s)]])
    /\ UNCHANGED <<now, boot, sched, closer, wh, adm, env, log>>

\* the wager confirmations the event source may deliver, each any number of
\* times: memo "BET:b1:TREAT"
BetEvents ==
    { [bet |-> "b1", choice |-> "TREAT", sig |-> "tx1", amt |-> Wager,
       from |-> "AAAAAA1"],
      [bet |-> "b1", choice |-> "TREAT", sig |-> "tx2", amt |-> Wager,
       from |-> "AAAAAA1"],
      [bet |-> "b1", choice |-> "TREAT", sig |-> "tx3", amt |-> Wager \div 2,
       from |-> "AAAAAA1"] }

\* the flip as it would be with the parities exchanged
CoinFlip_Even(seed, sig, cseed) ==
    IF _hmac(seed, StrCode(sig) * 10 + StrCode(cseed)) % 2 = 0
    THEN "TREAT" ELSE "TRICK"

\* rng = int.from_bytes(_hmac(server_seed, tx_sig + client_seed), "big");
\* result = "TREAT" if (rng % 2) else "TRICK"
CoinFlip(seed, sig, cseed) ==
    IF _hmac(seed, StrCode(sig) * 10 + StrCode(cseed)) % 2 = 1
    THEN "TREAT" ELSE "TRICK"

\* the idempotency guard: if prev_status == "SETTLED" and existing_payout
AlreadyPaid(prev, existing) == prev = "SETTLED" /\ existing # ""

\* an event arrives: SELECT wager, status FROM bets WHERE id=?; no row: skip
BetArrives(h) ==
    /\ Up
    /\ wh[h].pc = "idle"
    /\ env.events < MaxEvents
    /\ \E ev \in BetEvents :
         /\ env' = Delivered(ev)
         /\ log' = [log EXCEPT !.sigs = @ \cup {ev.sig}]
         /\ WhGoes(h, IF db.bets[ev.bet].status = "NONE" THEN IdleHandler
               ELSE [IdleHandler EXCEPT !.pc = "bet_paid", !.bet = ev.bet,
                        !.choice = ev.choice, !.sig = ev.sig, !.amt = ev.amt,
                        !.from = ev.from, !.wager = db.bets[ev.bet].wager,
                        !.prev = db.bets[ev.bet].status,
                        !.was = [status |-> db.bets[ev.bet].status,
                                 tx |-> db.bets[ev.bet].tx,
                                 quiet |-> OthersIdle(h),
                                 pot |-> 0, credit |-> 0]])
    /\ UNCHANGED <<db, disk, inTx, now, boot, sched, closer, adm>>

\* existing_payout = await kv_get(bet:<id>:payout_sig); the guard; then the
\* short-deposit guard
BetPaidCheck(h) ==
    /\ wh[h].pc = "bet_paid"
    /\ LET existing == db.bpaysig[wh[h].bet]
       IN  WhGoes(h, IF AlreadyPaid(wh[h].prev, existing) THEN IdleHandler
               ELSE [wh[h] EXCEPT !.paid = existing,
                        !.pc = IF wh[h].amt < wh[h].wager THEN "bet_short"
                               ELSE "bet_seed"])
    /\ UNCHANGED <<db, disk, inTx, now, boot, sched, closer, adm, env, log>>

\* the short-deposit guard as it would be if it settled the bet as lost
\* instead of recording the marker
BetShort_Settles(h) ==
    /\ wh[h].pc = "bet_short"
    /\ WriteCommit([db EXCEPT !.bets[wh[h].bet].status = "SETTLED",
                              !.bets[wh[h].bet].win = 0])
    /\ WhGoes(h, IdleHandler)
    /\ UNCHANGED <<now, boot, sched, closer, adm, env, log>>

\* kv_set(bet:<id>:short_deposit, str(amt)); commit; continue
BetShort(h) ==
    /\ wh[h].pc = "bet_short"
    /\ kv_set("bshort", wh[h].bet, wh[h].amt)
    /\ WhGoes(h, IdleHandler)
    /\ UNCHANGED <<now, boot, sched, closer, adm, env, log>>

\* server_seed = await kv_get(bet:<id>:server_seed)
BetSeed(h) ==
    /\ wh[h].pc = "bet_seed"
    /\ WhGoes(h, [wh[h] EXCEPT !.seed = db.bseed[wh[h].bet],
           !.pc = IF db.bseed[wh[h].bet] = NoSeed THEN "bet_noseed" ELSE "bet_cseed"])
    /\ UNCHANGED <<db, disk, inTx, now, boot, sched, closer, adm, env, log>>

\* kv_set(bet:<id>:payout_error, "missing_server_seed"); commit; continue
BetNoSeed(h) ==
    /\ wh[h].pc = "bet_noseed"
    /\ kv_set("bpayerr", wh[h].bet, "missing_server_seed")
    /\ WhGoes(h, IdleHandler)
    /\ UNCHANGED <<now, boot, sched, closer, adm, env, log>>

\* SELECT client_seed FROM bets WHERE id=?
BetClientSeed(h) ==
    /\ wh[h].pc = "bet_cseed"
    /\ WhGoes(h, [wh[h] EXCEPT !.pc = "bet_update", !.cseed = db.bets[wh[h].bet].cseed])
    /\ UNCHANGED <<db, disk, inTx, now, boot, sched, closer, adm, env, log>>

\* the UPDATE as it would be without server_seed_reveal among its columns
SettledBet_NoReveal(row, seed, sig, cseed, choice, sender, t) ==
    [row EXCEPT !.user = sender,
                !.result = CoinFlip(seed, sig, cseed),
                !.win = IF CoinFlip(seed, sig, cseed) = choice THEN 1 ELSE 0,
                !.status = "SETTLED",
                !.tx = sig,
                !.settled = t]

\* the row the UPDATE writes: result, win = int(result == choice), SETTLED,
\* the reveal, the payment reference, settled_at = utcnow()
SettledBet(row, seed, sig, cseed, choice, sender, t) ==
    [row EXCEPT !.user = sender,
                !.result = CoinFlip(seed, sig, cseed),
                !.win = IF CoinFlip(seed, sig, cseed) = choice THEN 1 ELSE 0,
                !.status = "SETTLED",
                !.reveal = seed,
                !.tx = sig,
                !.settled = t]

\* UPDATE bets SET user=?, result=?, win=?, status=?, ... WHERE id=?
BetUpdate(h) ==
    /\ wh[h].pc = "bet_update"
    /\ LET row == SettledBet(db.bets[wh[h].bet], wh[h].seed, wh[h].sig,
                             wh[h].cseed, wh[h].choice, wh[h].from, now)
       IN  /\ Write([db EXCEPT !.bets[wh[h].bet] = row])
           /\ WhGoes(h, [wh[h] EXCEPT !.pc = "bet_commit", !.win = row.win])
    /\ log' = [log EXCEPT !.settles = @ + 1]
    /\ UNCHANGED <<now, boot, sched, closer, adm, env>>

\* the payout is due: if win and wager > 0 and not existing_payout
PayoutDue(win, wager, existing) == win = 1 /\ wager > 0 /\ existing = ""

\* await app.state.db.commit()
BetCommit(h) ==
    /\ wh[h].pc = "bet_commit"
    /\ Commit
    /\ WhGoes(h, IF PayoutDue(wh[h].win, wh[h].wager, wh[h].paid)
                 THEN [wh[h] EXCEPT !.pc = "bet_pay"] ELSE IdleHandler)
    /\ UNCHANGED <<now, boot, sched, closer, adm, env, log>>

CoinflipPay(h, ok) ==
    [kind |-> "coinflip", id |-> wh[h].bet, to |-> wh[h].from, pot |-> 0,
     amt |-> wh[h].wager * WIN_AMOUNT, dev |-> 0, burn |-> 0, ok |-> ok]

\* payout_sig = await pay_coinflip_winner(sender_raw, payout_amount)
BetPay(h) ==
    /\ wh[h].pc = "bet_pay"
    /\ log' = [log EXCEPT !.pays = Append(@, CoinflipPay(h, TRUE))]
    /\ WhGoes(h, [wh[h] EXCEPT !.pc = "bet_paysig"])
    /\ UNCHANGED <<db, disk, inTx, now, boot, sched, closer, adm, env>>

\* ... which raises
BetPayRaises(h) ==
    /\ wh[h].pc = "bet_pay"
    /\ MayFail
    /\ env' = Fault
    /\ log' = [log EXCEPT !.pays = Append(@, CoinflipPay(h, FALSE))]
    /\ WhGoes(h, [wh[h] EXCEPT !.pc = "bet_payerr"])
    /\ UNCHANGED <<db, disk, inTx, now, boot, sched, closer, adm>>

\* kv_set(bet:<id>:payout_sig, payout_sig); commit
BetPaySig(h) ==
    /\ wh[h].pc = "bet_paysig"
    /\ kv_set("bpaysig", wh[h].bet, "sigC")
    /\ WhGoes(h, IdleHandler)
    /\ UNCHANGED <<now, boot, sched, closer, adm, env, log>>

\* kv_set(bet:<id>:payout_error, str(e)); commit
BetPayErr(h) ==
    /\ wh[h].pc = "bet_payerr"
    /\ kv_set("bpayerr", wh[h].bet, "error")
    /\ WhGoes(h, IdleHandler)
    /\ UNCHANGED <<now, boot, sched, closer, adm, env, log>>

\* the BET branch after the SELECT of the bet
BetSettles(h) ==
    \/ BetPaidCheck(h) \/ BetShort(h) \/ BetSeed(h)
    \/ BetClientSeed(h) \/ BetUpdate(h) \/ BetCommit(h)
    \/ BetPay(h) \/ BetPayRaises(h) \/ BetPaySig(h) \/ BetPayErr(h)

BetHandler(h) == BetArrives(h) \/ BetSettles(h)

----------------------------------------------------------------------------
(* helius_webhook, the head of the loop: _parse_token_transfer, the mint    *)
(* guard, the memo of a coin flip deposit                                   *)

\* settings.TREATZ_MINT, a base58 address (letter case matters on chain)
TREATZ_MINT == "TrEaTz"

\* str.lower() on the identifiers that occur
Lower(s) ==
    IF s \in {"TrEaTz", "tREAtZ"} THEN "treatz"
    ELSE IF s = "Other" THEN "other" ELSE s

\* events as the webhook receives them: memo is memo.split(":"), tts the mints
\* of tokenTransfers in order, mint the root field (absent: "")
RawEvents ==
    { [sig |-> "tx1", memo |-> <<"BET", "b1", "TREAT">>, tts |-> <<>>,
       mint |-> "TrEaTz", amt |-> Wager, from |-> "AAAAAA1"],
      [sig |-> "tx2", memo |-> <<"BET", "b1", "TRICK">>, tts |-> <<"TrEaTz">>,
       mint |-> "", amt |-> Wager, from |-> "AAAAAA1"],
      [sig |-> "tx3", memo |-> <<"BET", "b1", "TREAT">>, tts |-> <<"Other", "TrEaTz">>,
       mint |-> "", amt |-> Wager \div 2, from |-> "AAAAAA1"],
      [sig |-> "tx4", memo |-> <<"BET", "b1">>, tts |-> <<>>,
       mint |-> "TrEaTz", amt |-> Wager, from |-> "AAAAAA1"],
      [sig |-> "tx5", memo |-> <<"BET", "b1", "TREAT", "x">>, tts |-> <<"TrEaTz">>,
       mint |-> "", amt |-> Wager, from |-> "AAAAAA1"],
      [sig |-> "tx6", memo |-> <<"BET", "b1", "TREAT">>, tts |-> <<>>,
       mint |-> "Other", amt |-> Wager, from |-> "AAAAAA1"],
      [sig |-> "tx7", memo |-> <<"BET", "b1", "TREAT">>, tts |-> <<"Other">>,
       mint |-> "", amt |-> Wager, from |-> "AAAAAA1"],
      [sig |-> "tx8", memo |-> <<"BET", "b1", "TREAT">>, tts |-> <<>>,
       mint |-> "tREAtZ", amt |-> Wager, from |-> "AAAAAA1"],
      [sig |-> "tx9", memo |-> <<"BET", "b9", "TREAT">>, tts |-> <<"TrEaTz">>,
       mint |-> "", amt |-> Wager, from |-> "AAAAAA1"] }

\* _parse_token_transfer: the mint of the first transfer in our mint, else
\* the root field, lower-cased
ParsedMint(ev) ==
    IF \E i \in 1 .. Len(ev.tts) : Lower(ev.tts[i]) = Lower(TREATZ_MINT)
    THEN Lower(TREATZ_MINT) ELSE Lower(ev.mint)

\* the mint guard: continue
MintGuardSkips(ev) ==
    IF ev.tts # <<>> THEN ParsedMint(ev) # Lower(TREATZ_MINT)
    ELSE Lower(ev.mint) # "" /\ Lower(ev.mint) # Lower(TREATZ_MINT)

\* memo.startswith("BET:") (the destination is the game vault)
IsBetMemo(memo) == Len(memo) >= 2 /\ memo[1] = "BET"

\* _, bet_id, choice = memo.split(":") raises: continue
SplitRaises(memo) == Len(memo) # 3

\* SELECT wager, status FROM bets WHERE id=? returns no row
NoBetRow(d, id) == id \notin BetIds \/ d.bets[id].status = "NONE"

\* the event is dropped before the bet is read, or no such bet exists
EventDropped(d, ev) ==
    \/ MintGuardSkips(ev)
    \/ ~IsBetMemo(ev.memo)
    \/ SplitRaises(ev.memo)
    \/ NoBetRow(d, ev.memo[2])

\* for ev in events: the guards, then the SELECT of the bet
WebhookEvent(h) ==
    /\ Up
    /\ wh[h].pc = "idle"
    /\ env.events < MaxEvents
    /\ \E ev \in RawEvents :
         /\ env' = Delivered(ev)
         /\ log' = [log EXCEPT !.sigs = @ \cup {ev.sig}, !.raw = Append(@, ev.sig)]
         /\ WhGoes(h, IF EventDropped(db, ev) THEN IdleHandler
               ELSE [IdleHandler EXCEPT !.pc = "bet_paid", !.bet = ev.memo[2],
                        !.choice = ev.memo[3], !.sig = ev.sig, !.amt = ev.amt,
                        !.from = ev.from, !.wager = db.bets[ev.memo[2]].wager,
                        !.prev = db.bets[ev.memo[2]].status,
                        !.was = [status |-> db.bets[ev.memo[2]].status,
                                 tx |-> db.bets[ev.memo[2]].tx,
                                 quiet |-> OthersIdle(h),
                                 pot |-> 0, credit |-> 0]])
    /\ UNCHANGED <<db, disk, inTx, now, boot, sched, closer, adm>>

----------------------------------------------------------------------------
(* The service: startup, the scheduler with its close-and-reopen, one       *)
(* webhook request at a time carrying raffle deposits, and the clock        *)

Next ==
    \/ Startup
    \/ Scheduler
    \/ CloseSettles("sched") \/ CloseDraws("sched")
    \/ CloseReopens("sched") \/ CloseSweeps("sched")
    \/ JpHandler("h1")
    \/ TimePasses

Spec == Init /\ [][Next]_vars

(* Coin flip: bets are placed and their confirmations arrive, to two        *)
(* webhook requests at a time                                               *)

NextBet ==
    \/ Startup
    \/ create_bet
    \/ BetHandler("h1") \/ BetHandler("h2")
    \/ Tick

SpecBet == Init /\ [][NextBet]_vars

(* Operations: the admin endpoints (close, seed, reset of the counter), the *)
(* one-shot initializer and restarts of the process                         *)

NextOps ==
    \/ ensure_current_round
    \/ Startup
    \/ Restart
    \/ AdminCloseCalled
    \/ CloseSettles("admin") \/ CloseReopens("admin")
    \/ CloseSeedGen("admin")
    \/ CloseInsertRaises("admin")
    \/ admin_seed_rounds
    \/ admin_reset_round_counter

SpecOps == Init /\ [][NextOps]_vars

(* Raffle deposits: two webhook requests at a time on the started service   *)

NextDeposits ==
    \/ Startup
    \/ JpHandler("h1") \/ JpHandler("h2")

SpecDeposits == Init /\ [][NextDeposits]_vars

(* The round lifecycle alone, with the scheduling of the event loop: a      *)
(* coroutine that can take its next step takes it, and time passes          *)

NextRounds ==
    \/ Startup
    \/ Scheduler
    \/ CloseSettles("sched") \/ CloseReopens("sched")
    \/ TimePasses

SpecRounds ==
    /\ Init /\ [][NextRounds]_vars
    /\ WF_vars(Startup)
    /\ WF_vars(Scheduler)
    /\ WF_vars(CloseSettles("sched") \/ CloseReopens("sched"))
    /\ WF_vars(TimePasses)

(* The raffle under every split configuration: deposits, and the close    *)
(* endpoint called directly                                               *)

NextSplit ==
    \/ Startup
    \/ JpHandler("h1")
    \/ AdminCloseCalled
    \/ CloseSettles("admin") \/ CloseDraws("admin")
    \/ CloseReopens("admin")

SpecSplit == InitSplit /\ [][NextSplit]_vars

(* The raffle on a ledger prepared by the one-shot initializer or by       *)
(* startup: deposits, and the close endpoint called directly              *)

NextAudit ==
    \/ ensure_current_round
    \/ Startup
    \/ JpHandler("h1")
    \/ AdminCloseCalled
    \/ CloseSettles("admin") \/ CloseSeedGen("admin") \/ CloseDraws("admin")
    \/ CloseReopens("admin") \/ CloseInsertRaises("admin")

SpecAudit == Init /\ [][NextAudit]_vars

(* The webhook with both kinds of payment: a request carrying wager         *)
(* confirmations and a request carrying raffle deposits at the same time    *)

NextWebhook ==
    \/ Startup
    \/ create_bet
    \/ BetHandler("h1")
    \/ JpHandler("h2")
    \/ Tick

SpecWebhook == Init /\ [][NextWebhook]_vars

(* The webhook fed with events of any shape: other mints, malformed memos,  *)
(* unknown bets                                                             *)

NextGuards ==
    \/ Startup
    \/ create_bet
    \/ WebhookEvent("h1")
    \/ BetSettles("h1")
    \/ Tick

SpecGuards == Init /\ [][NextGuards]_vars

(* The entropy of the close on a chain that may lack the planned block, on  *)
(* a ledger prepared by the one-shot initializer or by startup              *)

\* one raffle deposit of a ticket and a half, delivered any number of times
OneDeposit ==
    { [sig |-> "tx1", from |-> "AAAAAA1", amt |-> 3 * (TICKET_PRICE \div 2),
       round |-> NoId] }

NextEntropy ==
    \/ ensure_current_round
    \/ Startup
    \/ JpArrivesFrom("h1", OneDeposit) \/ JpSteps("h1")
    \/ AdminCloseCalled
    \/ CloseSettles("admin") \/ CloseScans("admin") \/ CloseSeedGen("admin")
    \/ CloseReopens("admin")

SpecEntropy == Init /\ [][NextEntropy]_vars

(* The credit sweep with two wallets that share their first six characters: *)
(* deposits that leave credit, and the close endpoint called directly       *)

\* half a ticket from each of the two wallets: no ticket is bought, the
\* deposit becomes credit
SweepEvents ==
    { [sig |-> "tx3", from |-> "AAAAAA1", amt |-> TICKET_PRICE \div 2, round |-> NoId],
      [sig |-> "tx2", from |-> "AAAAAA2", amt |-> TICKET_PRICE \div 2, round |-> NoId] }

\* the JP branch of a deposit below the ticket price (tickets = 0)
JpCredits(h) ==
    \/ JpBegin(h) \/ JpBeginRaises(h) \/ JpCreditGet(h) \/ JpCreditSet(h)
    \/ JpCommit(h) \/ JpRollback(h)

NextSweep ==
    \/ Startup
    \/ JpArrivesUpTo("h1", SweepEvents, MaxDeposits + 1) \/ JpCredits("h1")
    \/ AdminCloseCalled
    \/ CloseSettles("admin") \/ CloseReopens("admin")
    \/ CloseSweeps("admin") \/ CloseSweepInsertRaises("admin")

SpecSweep == Init /\ [][NextSweep]_vars

(* Webhook requests that carry a batch of raffle deposits, two at a time    *)

NextBatch ==
    \/ Startup
    \/ JpBatchArrives("h1") \/ JpSteps("h1") \/ JpNext("h1")
    \/ JpBatchArrives("h2") \/ JpSteps("h2") \/ JpNext("h2")

SpecBatch == Init /\ [][NextBatch]_vars

(* The close endpoint called directly while the scheduler runs its own      *)
(* close-and-reopen, on a round that holds one deposit                      *)

\* admin_close_round when the chain reader and the Payout Executor answer
CloseRuns(c) ==
    \/ CloseGetRid(c) \/ CloseLoad(c) \/ CloseEntries(c) \/ CloseSeed(c)
    \/ CloseEntropy(c) \/ CloseEntropyKv(c) \/ CloseEntropySlotKv(c)
    \/ CloseNoDraw(c)
    \/ CloseDraw(c) \/ CloseDrawKv(c) \/ CloseDrawSlotKv(c) \/ ClosePay(c)
    \/ ClosePaid1(c) \/ ClosePaid2(c) \/ CloseSettle(c)
    \/ CloseReopens(c) \/ CloseInsertRaises(c)

\* the webhook handler when every statement of the jackpot branch succeeds
JpRecords(h) ==
    \/ JpBegin(h) \/ JpInsert(h) \/ JpPot(h)
    \/ JpCreditGet(h) \/ JpCreditSet(h) \/ JpCommit(h)

\* one deposit, one direct call of the endpoint, and the clock of the
\* first round
NextCloseTwice ==
    \/ Startup
    \/ Scheduler
    \/ JpArrivesUpTo("h1", OneDeposit, 1) \/ JpRecords("h1")
    \/ (AdminCloseCalled /\ env.calls = 0)
    \/ CloseRuns("sched")
    \/ CloseRuns("admin")
    \/ (TimePasses /\ now' <= MaxTime)

SpecCloseTwice == Init /\ [][NextCloseTwice]_vars

(* Raffle deposits whose memo names a round, while rounds are closed and    *)
(* reopened by the scheduler                                                *)

NextMemo ==
    \/ Startup
    \/ Scheduler
    \/ CloseSettles("sched") \/ CloseDraws("sched") \/ CloseReopens("sched")
    \/ JpMemoArrives("h1") \/ JpSteps("h1")
    \/ TimePasses

SpecMemo == Init /\ [][NextMemo]_vars

(* Credit: deposits with remainders of one wallet, while the scheduler      *)
(* closes rounds and sweeps the credits into the next round                 *)

NextCredit ==
    \/ Startup
    \/ Scheduler
    \/ CloseSettles("sched") \/ CloseDraws("sched")
    \/ CloseReopens("sched") \/ CloseSweeps("sched")
    \/ JpCreditArrives("h1") \/ JpSteps("h1")
    \/ TimePasses

SpecCredit == Init /\ [][NextCredit]_vars

----------------------------------------------------------------------------
(* Properties *)

OpenRounds(d) == {r \in RoundIds : d.rounds[r].status = "OPEN"}

NoCloseRunning == \A c \in Closers : closer[c].pc = "idle"

\* C1: after startup exactly one round has status OPEN, whatever operations
\* ran and wherever they failed.  Stated for the committed ledger in the
\* states where no close-and-reopen is under way, the reading kindest to the
\* code.
C1_ExactlyOneOpen ==
    (Up /\ NoCloseRunning) => Cardinality(OpenRounds(disk)) = 1

\* C8: when a close-and-reopen called by the scheduler has raised, a later
\* iteration still leads to an OPEN round that is the current round.
C8_FailedCloseRecovers ==
    (sched.exc = "close")
        ~> (db.cur # NoId /\ disk.rounds[db.cur].status = "OPEN")

\* the positions of a running scheduler task
SchedRunning == {"top", "select", "closing", "sleep"}

\* C9: an exception raised in an iteration of the scheduler (reading the
\* ledger, parsing the close time, close-and-reopen) never ends the task: it
\* sleeps, and then begins another iteration.
C9_SchedulerSurvives ==
    /\ [](sched.pc \in SchedRunning)
    /\ [](sched.exc # "none" => sched.pc \in {"sleep", "top"})
    /\ \A kind \in {"kv_get", "select", "parse", "close"} :
         (sched.exc = kind) ~> (sched.exc = "none")

\* C9 happens: close-and-reopen raised into the scheduler, which slept and is
\* at the top of its loop again
C9_Witness == sched.exc = "close" /\ sched.pc = "top"

\* the tickets of the first i entries
CumTix(entries, i) == SumTickets(SubSeq(entries, 1, i))

\* the close has passed the point of the draw
PastDraw(c) ==
    closer[c].pc \notin {"idle", "rid", "load", "entries", "seed", "seedgen",
                         "entropy", "lastsig", "slotfix", "slotfix2", "entkv",
                         "entslot", "draw"}

\* C10: a round closed with total tickets > 0 has exactly one winner: with
\* the draw value in [0, total), the first entry, in the order the entries
\* were read, whose cumulative ticket sum strictly exceeds the draw value.
C10_WeightedDraw ==
    \A c \in Closers :
      (PastDraw(c) /\ TotalTix(closer[c].entries) > 0) =>
         /\ closer[c].pick \in 0 .. TotalTix(closer[c].entries) - 1
         /\ \E i \in 1 .. Len(closer[c].entries) :
              /\ closer[c].winner = closer[c].entries[i].user
              /\ CumTix(closer[c].entries, i) > closer[c].pick
              /\ CumTix(closer[c].entries, i - 1) <= closer[c].pick

\* a step of the request h, taken while no other request is being handled,
\* for an event that arrived when none was
StepAlone(h) == wh'[h] # wh[h] /\ wh[h].was.quiet /\ OthersIdle(h)

\* result, win, payment reference and settlement time of a bet
Outcome(row) == <<row.result, row.win, row.tx, row.settled>>

\* the calls of the Payout Executor for a bet
CoinflipPays == {i \in DOMAIN log.pays : log.pays[i].kind = "coinflip"}

\* C2: the event that settled a bet, delivered again once the bet is
\* SETTLED, changes none of result, win, payment reference, settlement time
\* and payout reference, and causes no call of the Payout Executor.
C2_RedeliveryIgnored ==
    [][\A h \in Handlers :
         (/\ StepAlone(h)
          /\ wh[h].was.status = "SETTLED"
          /\ wh[h].was.tx = wh[h].sig)
         => /\ Outcome(db'.bets[wh[h].bet]) = Outcome(db.bets[wh[h].bet])
            /\ db'.bpaysig = db.bpaysig
            /\ log'.pays = log.pays]_vars

\* C3: two identical confirmations of a winning bet, handled by two requests
\* whose steps interleave, settle the bet once and call the Payout Executor
\* once (no payout fails, no other event is delivered).
C3_OneSettleOnePayout ==
    (/\ env.fails = 0
     /\ log.sigs = {"tx1"}
     /\ db.bets["b1"].win = 1)
    => (log.settles <= 1 /\ Cardinality(CoinflipPays) <= 1)

\* C4: a confirmation with another payment reference and a sufficient amount,
\* arriving once the bet is SETTLED, changes none of result, win and payment
\* reference, and causes no call of the Payout Executor.
C4_LaterPaymentIgnored ==
    [][\A h \in Handlers :
         (/\ StepAlone(h)
          /\ wh[h].was.status = "SETTLED"
          /\ wh[h].was.tx # wh[h].sig
          /\ wh[h].amt >= wh[h].wager)
         => /\ db'.bets[wh[h].bet].result = db.bets[wh[h].bet].result
            /\ db'.bets[wh[h].bet].win = db.bets[wh[h].bet].win
            /\ db'.bets[wh[h].bet].tx = db.bets[wh[h].bet].tx
            /\ log'.pays = log.pays]_vars

\* C5: a raffle deposit delivered again after its first delivery was handled
\* leaves the entries, the pots and the credits as they were, whether it
\* bought tickets or only left a remainder.
C5_DepositRedelivery ==
    [][\A h \in Handlers :
         (StepAlone(h) /\ wh[h].was.status = "SEEN")
         => /\ db'.entries = db.entries
            /\ \A r \in RoundIds : db'.rounds[r].pot = db.rounds[r].pot
            /\ db'.credit = db.credit]_vars

\* C6: Entry, pot increment and credit of one deposit are committed together
\* or not at all: in the committed ledger every pot is the price of the
\* tickets of its entries, and a request that has stored the credit of a
\* deposit with tickets has its Entry committed.
C6_DepositAtomic ==
    /\ \A r \in RoundIds :
         disk.rounds[r].status = "OPEN" =>
           disk.rounds[r].pot = TICKET_PRICE * SumTickets(EntriesOf(disk, r))
    /\ \A h \in Handlers :
         (wh[h].pc = "jp_commit" /\ Tickets(wh[h].amt) > 0
                                 /\ Remainder(wh[h].amt) > 0)
         => SigUsed(disk, wh[h].sig)

\* C7: the ids the allocator returns are strictly increasing, whatever the
\* interleaving of its callers, across restarts and counter resets.
C7_IdsIncrease ==
    \A i, j \in DOMAIN log.alloc : i < j => log.alloc[i] < log.alloc[j]

\* the calls of the Payout Executor for a round
JackpotPays == {i \in DOMAIN log.pays : log.pays[i].kind = "jackpot"}

\* C11: whenever a payout split is computed for a round, the pot is > 0, the
\* three shares are non-negative and winner + dev + burn = pot exactly, for
\* every split configuration.
C11_SplitSumsToPot ==
    \A i \in JackpotPays :
       /\ log.pays[i].pot > 0
       /\ log.pays[i].amt >= 0 /\ log.pays[i].dev >= 0 /\ log.pays[i].burn >= 0
       /\ log.pays[i].amt + log.pays[i].dev + log.pays[i].burn = log.pays[i].pot

\* C11 happens: a split whose floor shares leave a remainder, with the dev
\* wallet not configured
C11_Witness ==
    \E i \in JackpotPays :
       /\ ~env.cfg.devWallet
       /\ log.pays[i].dev = 0
       /\ log.pays[i].amt > (log.pays[i].pot * env.cfg.win) \div TotalPct(env.cfg)
       /\ log.pays[i].burn > 0

\* the request h answers a deposit delivered for the first time
FirstDeliveryDone(h) ==
    /\ wh[h].pc = "jp_commit" /\ wh'[h].pc = "idle"
    /\ wh[h].was.status # "SEEN"

\* C12: when a raffle deposit of amount a has been processed, an Entry with
\* floor(a / p) tickets exists if that is > 0, and (compared when no other
\* request is in progress at its arrival and at its end) the pot has grown by
\* tickets * p and the credit of the wallet by the remainder a - tickets * p.
C12_DepositRecorded ==
    [][\A h \in Handlers :
         FirstDeliveryDone(h) =>
           /\ Tickets(wh[h].amt) > 0 =>
                \E i \in 1 .. Len(disk'.entries) :
                   disk'.entries[i] = [round |-> wh[h].rid, user |-> wh[h].from,
                                       tickets |-> Tickets(wh[h].amt),
                                       sig |-> wh[h].sig]
           /\ (wh[h].was.quiet /\ OthersIdle(h)) =>
                /\ disk'.rounds[wh[h].rid].pot =
                      wh[h].was.pot + Tickets(wh[h].amt) * TICKET_PRICE
                /\ disk'.credit[wh[h].from] =
                      wh[h].was.credit + Remainder(wh[h].amt)]_vars

\* C13: every SETTLED bet stores a reveal, and the hash of the reveal is the
\* server_seed_hash published when the bet was created.
C13_BetCommitReveal ==
    \A b \in BetIds : \A d \in {db, disk} :
       d.bets[b].status = "SETTLED" =>
          /\ d.bets[b].reveal # NoSeed
          /\ _hash(d.bets[b].reveal) = d.bets[b].hash

\* C13 happens: a bet created with the second secret is settled and committed
C13_Witness ==
    \E b \in BetIds :
       /\ disk.bets[b].status = "SETTLED"
       /\ disk.bets[b].reveal = NSeeds
       /\ disk.bets[b].hash = _hash(NSeeds)

\* C14: for every round whose reveal is set, the hash of the reveal is the
\* server_seed_hash stored when the round was opened, also for rounds whose
\* secret was missing at close and rounds the one-shot initializer created.
C14_RoundCommitReveal ==
    \A r \in RoundIds : \A d \in {db, disk} :
       d.rounds[r].reveal # NoSeed => _hash(d.rounds[r].reveal) = d.rounds[r].hash

\* C15: every round that close-and-reopen has made SETTLED has its revealed
\* secret stored on the round and its entropy stored, with or without a draw
\* (the committed ledger; no other operation makes a round SETTLED here)
C15_SettledRevealed ==
    \A r \in RoundIds :
        disk.rounds[r].status = "SETTLED" =>
            /\ disk.rounds[r].reveal # NoSeed
            /\ disk.rentropy[r] # ""

\* a close operation writes status='SETTLED' on its round in this step
SettlesRound(c) ==
    /\ closer[c].pc \in {"draw", "settle"}
    /\ closer'[c].pc = "alloc1"

\* C16: a round goes from OPEN to SETTLED only in a step where it is the
\* current round and its closes_at has passed, whoever runs the close, and
\* no close settles a round that is SETTLED already
C16_SettleOnlyWhenDue ==
    [][/\ \A r \in RoundIds :
            (db.rounds[r].status = "OPEN" /\ db'.rounds[r].status = "SETTLED")
                => (r = db.cur /\ now >= db.rounds[r].closes)
       /\ \A c \in Closers :
            SettlesRound(c) => db.rounds[closer[c].rid].status # "SETTLED"]_vars

\* a close operation that read pot = 0 ends in this step (returns or raises)
EmptyCloseEnds(c) ==
    /\ closer[c].pc \notin {"idle", "rid", "load"}
    /\ closer'[c].pc = "idle"
    /\ closer[c].pot = 0

\* no call of the Payout Executor for the round
NoJackpotPay(r) ==
    \A i \in DOMAIN log'.pays :
        ~(log'.pays[i].kind = "jackpot" /\ log'.pays[i].id = RoundName(r))

\* C17: a close of the current round with pot = 0 runs no draw, calls no
\* payout, records no winner, leaves the round SETTLED and leaves a new OPEN
\* round that is the current round
C17_EmptyRoundClosed ==
    [][\A c \in Closers :
         EmptyCloseEnds(c) =>
            LET r == closer[c].rid
            IN  /\ closer[c].winner = ""
                /\ NoJackpotPay(r)
                /\ disk'.rwinner[r] = ""
                /\ disk'.rounds[r].status = "SETTLED"
                /\ disk'.cur # r
                /\ disk'.cur # NoId
                /\ disk'.rounds[disk'.cur].status = "OPEN"]_vars

\* the handling of a winning bet whose payout raised ends in this step
PayoutFailureHandled(h) ==
    /\ wh[h].pc = "bet_payerr"
    /\ wh'[h].pc = "idle"

\* C18: when a bet wins and the Payout Executor raises, the bet stays
\* SETTLED with result, win flag, reveal and payment reference recorded, the
\* payout-error marker is recorded, the handling records no payout reference,
\* and the request goes on normally
C18_PayoutFailureKept ==
    [][\A h \in Handlers :
         PayoutFailureHandled(h) =>
            LET b == wh[h].bet
            IN  /\ disk'.bets[b].status = "SETTLED"
                /\ disk'.bets[b].result \in Sides
                /\ disk'.bets[b].win \in {0, 1}
                /\ disk'.bets[b].reveal # NoSeed
                /\ disk'.bets[b].tx # ""
                /\ disk'.bpayerr[b] # ""
                /\ disk'.bpaysig[b] = disk.bpaysig[b]
                /\ wh'[h] = IdleHandler]_vars

\* a close operation whose call of the Payout Executor raised ends in this
\* step (returns or raises)
FailedPayoutCloseEnds(c) ==
    /\ closer[c].pc # "idle"
    /\ closer'[c].pc = "idle"
    /\ \E i \in JackpotPays :
         ~log.pays[i].ok /\ log.pays[i].id = RoundName(closer[c].rid)

\* C19: when the Payout Executor raises during the close of a round with
\* pot > 0 and tickets > 0, the payout-error marker is recorded, the round is
\* SETTLED all the same and the next round is opened by the same operation
C19_CloseSurvivesPayoutFailure ==
    [][\A c \in Closers :
         FailedPayoutCloseEnds(c) =>
            LET r == closer[c].rid
            IN  /\ disk'.rpayerr[r] # ""
                /\ disk'.rounds[r].status = "SETTLED"
                /\ disk'.cur # r
                /\ disk'.cur # NoId
                /\ disk'.rounds[disk'.cur].status = "OPEN"]_vars

\* C20: in every reachable state, for every round, the recorded winner and
\* the recorded payout reference are both set or both absent (the committed
\* ledger, which GET /rounds/<id>/winner reads)
C20_WinnerWithPayout ==
    \A r \in RoundIds : (disk.rwinner[r] = "") <=> (disk.rpaysig[r] = "")

\* a request leaves the short-deposit guard in this step
ShortDepositHandled(h) ==
    /\ wh[h].pc = "bet_short"
    /\ wh'[h] # wh[h]

\* C21: a wager confirmation below the recorded wager (for a bet not settled
\* and paid already) reaches the short-deposit guard, which records the
\* marker with the observed amount and writes nothing else: a PENDING bet
\* stays PENDING with result, win and reveal null, and no payout is called
C21_ShortDepositOnlyMarks ==
    [][\A h \in Handlers :
         /\ (/\ wh[h].pc = "bet_paid" /\ wh'[h] # wh[h]
             /\ wh[h].amt < wh[h].wager
             /\ ~AlreadyPaid(wh[h].prev, db.bpaysig[wh[h].bet]))
                => wh'[h].pc = "bet_short"
         /\ ShortDepositHandled(h) =>
              LET b == wh[h].bet
              IN  /\ wh[h].amt < wh[h].wager
                  /\ db' = [db EXCEPT !.bshort[b] = wh[h].amt]
                  /\ disk'.bshort[b] = wh[h].amt
                  /\ log'.pays = log.pays
                  /\ wh'[h] = IdleHandler
                  /\ db.bets[b].status = "PENDING" =>
                        /\ db'.bets[b].status = "PENDING"
                        /\ db'.bets[b].result = ""
                        /\ db'.bets[b].win = -1
                        /\ db'.bets[b].reveal = NoSeed]_vars

\* a short confirmation has been handled for a bet that is still PENDING
C21_Witness ==
    /\ disk.bshort["b1"] = Wager \div 2
    /\ disk.bets["b1"].status = "PENDING"
    /\ disk.bets["b1"].reveal = NoSeed
    /\ \A h \in Handlers : wh[h].pc = "idle"

\* the event whose delivery is this step
ArrivingEvent == CHOOSE ev \in RawEvents : ev.sig = log'.raw[Len(log'.raw)]

\* the asset identifiers the event carries
AssetIds(ev) == ({ev.tts[i] : i \in 1 .. Len(ev.tts)} \cup {ev.mint}) \ {""}

\* C22: an event with a malformed BET memo, with an asset identifier
\* different from the configured mint, or naming a bet that does not exist
\* leaves every ledger record unchanged and calls no payout
C22_BadEventIgnored ==
    [][Len(log'.raw) > Len(log.raw) =>
         LET ev == ArrivingEvent
         IN  (\/ (IsBetMemo(ev.memo) /\ Len(ev.memo) # 3)
              \/ (AssetIds(ev) # {} /\ TREATZ_MINT \notin AssetIds(ev))
              \/ NoBetRow(db, ev.memo[2]))
                 => /\ db' = db
                    /\ disk' = disk
                    /\ log'.pays = log.pays
                    /\ wh' = wh]_vars

\* the handling of a raffle deposit ends in this step (answered or raised)
DepositEnds(h) ==
    /\ wh[h].pc \in {"jp_commit", "jp_rollback"}
    /\ wh'[h].pc = "idle"

\* C23: a raffle deposit whose memo names a round that does not exist is
\* attributed to the current round: when its handling ends, its Entry is
\* recorded on the current round
C23_UnknownRoundFallsBack ==
    [][\A h \in Handlers :
         (/\ DepositEnds(h)
          /\ wh[h].rid # NoId
          /\ ~RoundExists(db, wh[h].rid)
          /\ Tickets(wh[h].amt) > 0
          /\ wh[h].was.status # "SEEN")
            => \E i \in 1 .. Len(disk'.entries) :
                  /\ disk'.entries[i].sig = wh[h].sig
                  /\ disk'.entries[i].round = disk'.cur]_vars

\* C24: in every state a reader of the connection or of the committed ledger
\* can observe, the current-round pointer, when set, names a round that
\* exists; the pointer changes only in the pointer step of close-and-reopen
\* or of the first boot (the initializer included)
C24_PointerNamesRound ==
    [][/\ \A d \in {db', disk'} : d.cur # NoId => RoundExists(d, d.cur)
       /\ db'.cur # db.cur =>
             \/ \E c \in Closers : closer[c].pc = "ptr"
             \/ boot.pc = "ptr"
             \/ (boot.pc = "off" /\ db.cur = NoId)]_vars

\* C25: no update of a wallet's Credit is lost: every write of the deposit
\* handler leaves the balance of that moment plus the remainder, and every
\* write of the credit sweep leaves the balance of that moment minus the
\* amount it converted into tickets, whatever ran in between
C25_NoLostCreditUpdate ==
    [][/\ \A h \in Handlers :
            (wh[h].pc = "jp_credset" /\ wh'[h].pc = "jp_commit") =>
                db'.credit[wh[h].from] =
                    db.credit[wh[h].from] + Remainder(wh[h].amt)
       /\ \A c \in Closers :
            (closer[c].pc = "sweepkv" /\ closer'[c].pc = "sweep") =>
                LET row == Head(closer[c].credits)
                IN  db'.credit[row.owner] =
                        db.credit[row.owner]
                            - (row.credit \div TICKET_PRICE) * TICKET_PRICE]_vars

\* C26: Entries are added to a round and its pot is incremented only while
\* the round is OPEN: no step adds an Entry to a SETTLED round or raises its
\* pot, whether or not the memo names the round
C26_SettledRoundFrozen ==
    [][\A r \in RoundIds :
         (\/ Len(EntriesOf(db', r)) > Len(EntriesOf(db, r))
          \/ db'.rounds[r].pot > db.rounds[r].pot)
            => db.rounds[r].status = "OPEN"]_vars

\* C27: once reconciled, a wallet's Credit is below the ticket price: after
\* each raffle deposit has been handled and after each credit sweep has
\* ended (no request and no close in progress), every Credit < TICKET_PRICE
C27_CreditBelowPrice ==
    (NoCloseRunning /\ \A h \in Handlers : wh[h].pc = "idle")
        => \A w \in Wallets : disk.credit[w] < TICKET_PRICE

\* C28: for an adequately funded wager confirmation the outcome written is
\* TREAT when the keyed integer over (payment reference || client seed),
\* keyed by the bet's server secret, is odd and TRICK when it is even; win is
\* set exactly when the outcome is the side of the memo; a confirmation that
\* won, of a bet not yet paid, goes to the payout, and the payout is wager * WIN_AMOUNT
\* (1000000 * 2 = 2000000) to the sender
C28_FlipDecidesAndPays ==
    [][\A h \in Handlers :
        LET b == wh[h].bet
            rng == _hmac(db.bseed[b], StrCode(wh[h].sig) * 10 + StrCode(db.bets[b].cseed))
        IN  /\ (wh[h].pc = "bet_update" /\ wh'[h].pc = "bet_commit") =>
                  /\ wh[h].amt >= db.bets[b].wager
                  /\ db'.bets[b].result = (IF rng % 2 = 1 THEN "TREAT" ELSE "TRICK")
                  /\ db'.bets[b].win = (IF db'.bets[b].result = wh[h].choice THEN 1 ELSE 0)
                  /\ db'.bets[b].status = "SETTLED"
                  /\ wh'[h].win = db'.bets[b].win
            /\ (wh[h].pc = "bet_commit" /\ wh'[h] # wh[h] /\ wh[h].win = 1
                    /\ wh[h].paid = "") => wh'[h].pc = "bet_pay"
            /\ (wh[h].pc = "bet_pay" /\ Len(log'.pays) > Len(log.pays)) =>
                  LET pay == log'.pays[Len(log'.pays)]
                  IN  /\ wh[h].win = 1
                      /\ pay.kind = "coinflip" /\ pay.to = wh[h].from
                      /\ pay.amt = db.bets[b].wager * WIN_AMOUNT
                      /\ pay.amt = 2000000]_vars

\* a bet on TRICK was confirmed by tx2, came out TRICK, and 2000000 was paid
C28_Witness ==
    /\ disk.bets["b1"].status = "SETTLED" /\ disk.bets["b1"].tx = "tx2"
    /\ disk.bets["b1"].result = "TRICK" /\ disk.bets["b1"].win = 1
    /\ \E i \in DOMAIN log.pays :
          log.pays[i].kind = "coinflip" /\ log.pays[i].ok /\ log.pays[i].amt = 2000000
    /\ \A h \in Handlers : wh[h].pc = "idle"

\* the strategy that is first to succeed in the order exact position,
\* backward scan (2048 positions, not below 1), forward scan (128 positions),
\* latest block identifier, payment reference of the last Entry, random token
FirstToSucceed(slot, view, es) ==
    IF slot \in view.blocks THEN "exact"
    ELSE IF \E s \in view.blocks : s > 0 /\ slot - SEARCH_BACK <= s /\ s < slot THEN "back"
    ELSE IF \E s \in view.blocks : slot < s /\ s <= slot + SEARCH_FORWARD THEN "forward"
    ELSE IF view.latest THEN "latest"
    ELSE IF es # <<>> /\ es[Len(es)].sig # "" THEN "entry"
    ELSE "token"

\* C29: the entropy of a close comes from the first strategy that succeeds in
\* the fixed order; the payment reference of the last Entry or the random
\* token is used only after the chain reader was asked and every step of it
\* raised or gave no data; the entropy is never empty
C29_FirstStrategyThatSucceeds ==
    [][\A c \in Closers :
        (closer[c].how = "" /\ closer'[c].how # "") =>
            /\ closer'[c].how = FirstToSucceed(closer[c].fslot, closer'[c].view,
                                               EntriesOf(db, closer[c].rid))
            /\ closer'[c].entropy # ""
            /\ closer'[c].how \in {"entry", "token"} => closer'[c].view.asked]_vars

\* C30: after a close, an entropy position is recorded only when the entropy
\* is the identifier of a block read at a position (exact, backward or
\* forward), and it is that position; when the entropy is the latest block
\* identifier, an Entry's payment reference or the random token, no
\* position is recorded
C30_SlotRecordedOnlyForBlock ==
    [][\A c \in Closers :
        /\ (closer[c].pc = "entslot" /\ closer'[c].pc = "draw") =>
              /\ closer[c].how \in {"exact", "back", "forward"}
              /\ db'.rslot[closer[c].rid] = closer[c].eff
        /\ (closer[c].pc = "entkv" /\ closer'[c].pc = "draw") =>
              closer[c].how \in {"latest", "entry", "token"}]_vars

\* C32: the references the sweep generates for one new round differ for any
\* two distinct wallets it converts, so the INSERT of the sweep is never
\* refused and the sweep goes on to the pot of every eligible wallet
C32_SweepReferencesDistinct ==
    [][\A c \in Closers :
        (closer[c].pc = "sweep" /\ closer[c].credits # <<>> /\ closer'[c] # closer[c]) =>
            /\ \A i, j \in 1 .. Len(closer[c].credits) :
                  i # j => AutoCreditSig(closer[c].newId, closer[c].credits[i].owner)
                           # AutoCreditSig(closer[c].newId, closer[c].credits[j].owner)
            /\ closer'[c].pc = "sweeppot"]_vars

\* C31: the sweep after the reopening selects exactly the wallets with
\* Credit c >= TICKET_PRICE; for each of them it inserts one Entry of
\* floor(c / p) tickets on the new round, adds floor(c / p) * p to the pot
\* of the new round and stores c mod p as Credit, and these three are
\* committed together; no other Credit changes and the closed round gets
\* no Entry
C31_SweepConverts ==
    [][\A c \in Closers :
        LET me == closer[c]
            row == Head(me.credits)
            tix == row.credit \div TICKET_PRICE
            entry == [round |-> me.newId, user |-> row.owner, tickets |-> tix,
                      sig |-> AutoCreditSig(me.newId, row.owner)]
        IN  /\ (me.pc = "credits" /\ closer'[c].pc = "sweep") =>
                  \A w \in Wallets :
                      db.credit[w] >= TICKET_PRICE <=>
                          \E i \in 1 .. Len(closer'[c].credits) :
                              closer'[c].credits[i] = [owner |-> w, credit |-> db.credit[w]]
            /\ (me.pc = "sweep" /\ me.credits # <<>> /\ closer'[c] # me) =>
                  /\ closer'[c].pc = "sweeppot"
                  /\ db'.entries = Append(db.entries, entry)
            /\ (me.pc = "sweeppot" /\ closer'[c] # me) =>
                  /\ db'.rounds[me.newId].pot = db.rounds[me.newId].pot + tix * TICKET_PRICE
                  /\ db'.entries = db.entries
            /\ (me.pc = "sweepkv" /\ closer'[c] # me) =>
                  /\ db'.credit = [db.credit EXCEPT ![row.owner] = row.credit % TICKET_PRICE]
                  /\ \E i \in 1 .. Len(disk'.entries) : disk'.entries[i] = entry
                  /\ disk'.rounds[me.newId].pot >= tix * TICKET_PRICE
                  /\ entry.round # me.rid]_vars

\* C33: a failure or a duplicate while one event of a batch is handled does
\* not keep the events after it from being handled: a request never ends
\* while events of its batch are left
C33_BatchGoesOn ==
    [][\A h \in Handlers :
        (wh[h].rest # <<>> /\ wh'[h] # wh[h]) => wh'[h].pc # "idle"]_vars

\* C34: while a round is OPEN its committed pot never decreases: every step
\* that changes it adds a positive multiple of the ticket price, and the
\* Entries committed by the same step carry exactly that many tickets
C34_OpenPotOnlyGrowsWithEntries ==
    [][\A r \in RoundIds :
        (disk.rounds[r].status = "OPEN" /\ disk'.rounds[r].pot # disk.rounds[r].pot) =>
            LET grown == disk'.rounds[r].pot - disk.rounds[r].pot
            IN  /\ grown > 0
                /\ grown % TICKET_PRICE = 0
                /\ grown = TICKET_PRICE * (SumTickets(EntriesOf(disk', r))
                                           - SumTickets(EntriesOf(disk, r)))]_vars

\* C35: a start that finds the pointer creates no round, allocates no id and
\* leaves the ledger as it is; a start that finds no pointer touches no
\* other round than the one it allocated, and when it ends that round is
\* new, OPEN with pot 0, the ledger holds its secret, the hash of the secret
\* is the round's server_seed_hash and the pointer names it
C35_StartupRestartSafe ==
    [][/\ (boot.pc = "off" /\ boot'.pc # "off" /\ db.cur # NoId) =>
             /\ boot'.pc = "up"
             /\ db' = db /\ disk' = disk /\ log'.alloc = log.alloc
       /\ (boot.pc \notin {"off", "up"} /\ boot'.pc # "off") =>
             /\ \A r \in RoundIds \ {boot'.rid} : db'.rounds[r] = db.rounds[r]
             /\ Len(log'.alloc) <= Len(log.alloc) + 1
       /\ (boot.pc = "ptr" /\ boot'.pc = "up") =>
             LET r == boot.rid
             IN  /\ ~RoundExists(disk, r)
                 /\ disk'.cur = r
                 /\ disk'.rounds[r].status = "OPEN" /\ disk'.rounds[r].pot = 0
                 /\ disk'.rseed[r] # NoSeed
                 /\ disk'.rounds[r].hash = _hash(disk'.rseed[r])]_vars

\* the service was started, stopped and started again, and the ledger holds
\* the one round of the first start, which the pointer names
C35_Witness ==
    /\ boot.pc = "up" /\ env.restarts = 1
    /\ Len(log.alloc) = 1
    /\ disk.cur = 1
    /\ \A r \in RoundIds : RoundExists(disk, r) <=> r = 1
    /\ disk.rounds[1].status = "OPEN" /\ disk.rounds[1].pot = 0
    /\ disk.rounds[1].hash = _hash(disk.rseed[1])

\* C36: in every committed state the pot of every round is the ticket price
\* times the tickets of its Entries
C36_PotMatchesEntries ==
    \A r \in RoundIds :
        RoundExists(disk, r) =>
            disk.rounds[r].pot = TICKET_PRICE * SumTickets(EntriesOf(disk, r))

\* C37: once close-and-reopen has read the pot and the Entries of the round
\* it closes, and until the pointer names another round, no Entry is added
\* to that round and its pot does not grow
C37_NoEntryAfterSnapshot ==
    [][\A c \in Closers :
        (closer[c].pc \notin {"idle", "rid", "load", "entries"}
            /\ RoundExists(db, closer[c].rid) /\ db.cur = closer[c].rid) =>
            /\ Len(EntriesOf(db', closer[c].rid)) <= Len(EntriesOf(db, closer[c].rid))
            /\ db'.rounds[closer[c].rid].pot <= db.rounds[closer[c].rid].pot]_vars

(* C38: for every round the jackpot Payout Executor is invoked at most     *)
(* once, and at most one successor round is opened: a close that inserts   *)
(* the next round does so while the round it closes is still current and   *)
(* no other close of that round has inserted one.                          *)
PaidOnce ==
    \A i, j \in DOMAIN log.pays :
        (i # j /\ log.pays[i].kind = "jackpot" /\ log.pays[j].kind = "jackpot")
            => log.pays[i].id # log.pays[j].id

OneSuccessor ==
    \A c \in Closers :
        (closer[c].pc = "insert" /\ closer'[c].pc = "ptr") =>
            /\ db.cur = closer[c].rid
            /\ \A d \in Closers \ {c} :
                  ~(closer[d].rid = closer[c].rid /\ closer[d].pc \in {"ptr", "commit"})

C38_OnePayoutOneSuccessor == [](PaidOnce) /\ [][OneSuccessor]_vars

(* C39: a settled bet's win flag is 1 exactly when its result equals the   *)
(* side stored on the bet at creation, whatever side the memo of the        *)
(* confirmation carries.                                                    *)
C39_WinFollowsStoredSide ==
    [][\A h \in Handlers :
        LET b == wh[h].bet
        IN  (wh[h].pc = "bet_update" /\ wh'[h].pc = "bet_commit") =>
                /\ db'.bets[b].side = db.bets[b].side
                /\ (db'.bets[b].win = 1) <=> (db'.bets[b].result = db.bets[b].side)]_vars

(* C40: for every round opened by close-and-reopen, the planned entropy    *)
(* position is not expected before the round stops taking entries: the     *)
(* slots from the position of the chain at creation to finalize_slot are   *)
(* not fewer than the slots of the minutes from creation to closes_at.      *)
C40_SlotNotBeforeClose ==
    [][\A c \in Closers :
        (closer[c].pc = "insert" /\ closer'[c].pc = "ptr") =>
            LET row == db'.rounds[closer[c].newId]
            IN  /\ row.status = "OPEN"
                /\ row.fslot - SlotAt(now) >= (row.closes - now) * SLOTS_PER_MIN]_vars

============================================================================
